---- MODULE Spec2Model ----
(***************************************************************************)
(* State-machine model of MagicGuard's core: the signature store           *)
(* (core/database.py), the reader strategies and their factory             *)
(* (core/readers.py) and the validator (core/validator.py).                *)
(*                                                                         *)
(* Python strings are sequences of one-character strings, bytes objects    *)
(* are sequences of integers 0..255.  An offset is a Python value that is *)
(* an int or None (an INTEGER or NULL in the table): the int n is the      *)
(* one-element sequence Offset(n), None is the empty sequence Null.        *)
(*                                                                         *)
(* store is the signatures table as the store's connection sees it, in     *)
(* rowid order; its first committed rows are in the database file, the     *)
(* rows after them belong to a transaction that was never committed.  conn *)
(* tells whether the Database object holds a connection, last is the call  *)
(* that has just ended.                                                    *)
(***************************************************************************)
EXTENDS Integers, Sequences, FiniteSets, TLC

VARIABLES store, committed, conn, last

vars == <<store, committed, conn, last>>

(***************************************************************************)
(* Bounds of the model.                                                    *)
(***************************************************************************)
\* most rows the signatures table holds in the model
MaxRecords == 2

\* the longest message, in bytes, whose digest the model computes
MaxHashed == 64

\* the largest file, in bytes, that the model reads up to end-of-file in one
\* read
MaxRead == 8

(***************************************************************************)
(* Program constants.                                                      *)
(***************************************************************************)
\* validator.py: MAX_FILE_SIZE
MAX_FILE_SIZE == 104857600

\* validator.py line 156: reader.read_signature(file_path, 8, 0)
DiagLength == 8

\* validator.py line 224: f.read(8192)
ChunkSize == 8192

\* Python None bound to the offset column (INTEGER DEFAULT 0, nullable)
Null == <<>>

\* the int n as an offset, and the int of an offset that is not None
Offset(n) == <<n>>

IntOf(offset) == offset[1]

(***************************************************************************)
(* Characters and strings.                                                 *)
(***************************************************************************)
UpperChars == <<"A","B","C","D","E","F","G","H","I","J","K","L","M",
                "N","O","P","Q","R","S","T","U","V","W","X","Y","Z">>

LowerChars == <<"a","b","c","d","e","f","g","h","i","j","k","l","m",
                "n","o","p","q","r","s","t","u","v","w","x","y","z">>

\* str.lower() on one (ASCII) character
Lower(c) ==
    IF \E i \in 1..26 : UpperChars[i] = c
    THEN LowerChars[CHOOSE i \in 1..26 : UpperChars[i] = c]
    ELSE c

\* str.upper() on one (ASCII) character
Upper(c) ==
    IF \E i \in 1..26 : LowerChars[i] = c
    THEN UpperChars[CHOOSE i \in 1..26 : LowerChars[i] = c]
    ELSE c

StrLower(s) == [i \in 1..Len(s) |-> Lower(s[i])]

StrUpper(s) == [i \in 1..Len(s) |-> Upper(s[i])]

\* str.lstrip('.'): drop every leading dot
RECURSIVE LStripDot(_)
LStripDot(s) ==
    IF s # <<>> /\ Head(s) = "." THEN LStripDot(Tail(s)) ELSE s

\* str.replace(' ', ''): drop every space character (and nothing else)
RECURSIVE RemoveSpaces(_)
RemoveSpaces(s) ==
    IF s = <<>> THEN <<>>
    ELSE IF Head(s) = " " THEN RemoveSpaces(Tail(s))
    ELSE <<Head(s)>> \o RemoveSpaces(Tail(s))

\* Database._normalize_extension: extension.lower().lstrip('.')
normalize_extension(extension) == LStripDot(StrLower(extension))

\* Database._normalize_magic_bytes: magic_bytes.upper().replace(' ', '')
normalize_magic_bytes(magic_bytes) == RemoveSpaces(StrUpper(magic_bytes))

(***************************************************************************)
(* bytes.fromhex, as CPython computes it: before each byte it skips ASCII  *)
(* whitespace, then it needs two hexadecimal digits.                       *)
(***************************************************************************)
HexChars == <<"0","1","2","3","4","5","6","7","8","9","A","B","C","D","E","F">>

\* the vertical tab, the character 0x0B
VT == ""

\* Py_ISSPACE: space, \t, \n, \v, \f, \r
IsSpace(c) == c \in {" ", "\t", "\n", VT, "\f", "\r"}

IsHexDigit(c) == \E i \in 1..16 : HexChars[i] = Upper(c)

HexVal(c) == (CHOOSE i \in 1..16 : HexChars[i] = Upper(c)) - 1

\* the result of bytes.fromhex(s): ok = FALSE stands for ValueError
RECURSIVE FromHexFrom(_, _)
FromHexFrom(s, acc) ==
    IF s = <<>> THEN [ok |-> TRUE, bytes |-> acc]
    ELSE IF IsSpace(Head(s)) THEN FromHexFrom(Tail(s), acc)
    ELSE IF Len(s) >= 2 /\ IsHexDigit(s[1]) /\ IsHexDigit(s[2])
         THEN FromHexFrom(SubSeq(s, 3, Len(s)), Append(acc, 16 * HexVal(s[1]) + HexVal(s[2])))
         ELSE [ok |-> FALSE, bytes |-> <<>>]

fromhex(s) == FromHexFrom(s, <<>>)

\* bytes.hex().upper(): two uppercase hexadecimal digits per byte
HexUpper(bytes) ==
    [i \in 1..(2 * Len(bytes)) |->
        IF i % 2 = 1 THEN HexChars[(bytes[(i + 1) \div 2] \div 16) + 1]
                     ELSE HexChars[(bytes[i \div 2] % 16) + 1]]

(***************************************************************************)
(* The signature store (core/database.py).  rows is the signatures table   *)
(* in rowid order, as the connection sees it.                              *)
(***************************************************************************)
\* Database._validate_signature_input: the exception it raises, or "ok"
validate_signature_input(extension, magic_bytes) ==
    LET norm_ext == normalize_extension(extension)
        norm_hex == normalize_magic_bytes(magic_bytes)
    IN  IF norm_ext = <<>> THEN
            [exc |-> "DatabaseError", msg |-> "Extension cannot be empty",
             norm_ext |-> norm_ext, norm_hex |-> norm_hex]
        ELSE IF norm_hex = <<>> THEN
            [exc |-> "DatabaseError", msg |-> "Magic bytes cannot be empty",
             norm_ext |-> norm_ext, norm_hex |-> norm_hex]
        ELSE IF ~fromhex(norm_hex).ok THEN
            [exc |-> "DatabaseError", msg |-> "Invalid hex string for magic bytes",
             norm_ext |-> norm_ext, norm_hex |-> norm_hex]
        ELSE
            [exc |-> "none", msg |-> "", norm_ext |-> norm_ext, norm_hex |-> norm_hex]

\* UNIQUE(extension, magic_bytes, offset): SQLite rejects the new row when a
\* stored row has the same three values; a NULL is distinct from every value,
\* another NULL included, so a row with a NULL offset never conflicts.
UniqueViolation(rows, ext, hex, offset) ==
    /\ offset # Null
    /\ \E i \in 1..Len(rows) :
          /\ rows[i].extension = ext
          /\ rows[i].magic_bytes = hex
          /\ rows[i].offset = offset

\* the SELECT of get_signatures without its WHERE clause
RowsOfAny(rows, norm_ext) == rows

\* the rows of one extension, in rowid order:
\* SELECT magic_bytes, offset FROM signatures WHERE extension = ?
RowsOf(rows, norm_ext) ==
    SelectSeq(rows, LAMBDA r : r.extension = norm_ext)

\* every order in which the rows of a SELECT without ORDER BY can come back
Orders(rows) ==
    { [i \in 1..Len(rows) |-> rows[p[i]]] :
        p \in { q \in [1..Len(rows) -> 1..Len(rows)] :
                  \A i, j \in 1..Len(rows) : i # j => q[i] # q[j] } }

\* a row as get_signatures returns it: (row["magic_bytes"], row["offset"])
Pair(r) == <<r.magic_bytes, r.offset>>

\* what can go wrong in the backing store during add_signature: nothing; a
\* sqlite3.Error other than IntegrityError raised by the INSERT, either one
\* that fails the statement alone ("execute": the database is locked or
\* read-only) or one for which SQLite rolls the whole transaction back
\* ("execute_rollback": interrupt, disk full, I/O error, out of memory); or a
\* sqlite3.Error raised by commit() ("commit": the database file is locked by
\* a reader)
AddFaults == {"none", "execute", "execute_rollback", "commit"}

\* add_signature with a rollback in its handlers of sqlite3.Error: a failed
\* call leaves no row behind
add_signature_rollback(rows, n, extension, magic_bytes, offset, fault) ==
    LET v == validate_signature_input(extension, magic_bytes)
        row == [extension |-> v.norm_ext, magic_bytes |-> v.norm_hex, offset |-> offset]
    IN  IF v.exc # "none" THEN
            [exc |-> v.exc, msg |-> v.msg, rows |-> rows, committed |-> FALSE]
        ELSE IF fault # "none" THEN
            [exc |-> "DatabaseError", msg |-> "Failed to add signature", rows |-> rows,
             committed |-> FALSE]
        ELSE IF UniqueViolation(rows, v.norm_ext, v.norm_hex, offset) THEN
            [exc |-> "DatabaseError", msg |-> "already exists", rows |-> rows,
             committed |-> FALSE]
        ELSE
            [exc |-> "none", msg |-> "", rows |-> Append(rows, row), committed |-> TRUE]

\* Database.add_signature on the table rows, of which the first n are
\* committed: the exception raised ("none" when the call returns), the table
\* afterwards and whether commit() went through.  The INSERT opens a
\* transaction; nothing in the method rolls it back, so a row inserted before
\* a failing commit() stays in the connection's view, until SQLite itself
\* rolls the transaction back on a later error.
add_signature(rows, n, extension, magic_bytes, offset, fault) ==
    LET v == validate_signature_input(extension, magic_bytes)
        row == [extension |-> v.norm_ext, magic_bytes |-> v.norm_hex, offset |-> offset]
    IN  IF v.exc # "none" THEN
            [exc |-> v.exc, msg |-> v.msg, rows |-> rows, committed |-> FALSE]
        ELSE IF fault = "execute" THEN
            [exc |-> "DatabaseError", msg |-> "Failed to add signature", rows |-> rows,
             committed |-> FALSE]
        ELSE IF fault = "execute_rollback" THEN
            [exc |-> "DatabaseError", msg |-> "Failed to add signature",
             rows |-> SubSeq(rows, 1, n), committed |-> FALSE]
        ELSE IF UniqueViolation(rows, v.norm_ext, v.norm_hex, offset) THEN
            [exc |-> "DatabaseError", msg |-> "already exists", rows |-> rows,
             committed |-> FALSE]
        ELSE IF fault = "commit" THEN
            [exc |-> "DatabaseError", msg |-> "Failed to add signature",
             rows |-> Append(rows, row), committed |-> FALSE]
        ELSE
            [exc |-> "none", msg |-> "", rows |-> Append(rows, row), committed |-> TRUE]

\* Database.add_signature on a store without a connection: the input is
\* checked first, then self.conn.cursor() raises AttributeError, which is no
\* sqlite3.Error and leaves the method as it is
add_signature_closed(extension, magic_bytes) ==
    LET v == validate_signature_input(extension, magic_bytes)
    IN  IF v.exc # "none" THEN [exc |-> v.exc, msg |-> v.msg]
        ELSE [exc |-> "AttributeError", msg |-> "'NoneType' object has no attribute 'cursor'"]

\* get_signatures looking the extension up as it was spelled
get_signatures_as_spelled(rows, extension, order, fault) ==
    IF fault THEN
        [exc |-> "DatabaseError", msg |-> "Failed to query signatures", result |-> <<>>]
    ELSE IF RowsOf(rows, extension) = <<>> THEN
        [exc |-> "SignatureNotFoundError", msg |-> "No signature found for extension",
         result |-> <<>>]
    ELSE
        [exc |-> "none", msg |-> "",
         result |-> [i \in 1..Len(RowsOf(rows, extension)) |->
                        Pair(RowsOf(rows, extension)[i])]]

\* Database.get_signatures with the rows coming back in the given order
\* (one of Orders(RowsOf(rows, norm_ext))).
get_signatures(rows, extension, order, fault) ==
    LET norm_ext == normalize_extension(extension)
    IN  IF fault THEN
            [exc |-> "DatabaseError", msg |-> "Failed to query signatures", result |-> <<>>]
        ELSE IF RowsOf(rows, norm_ext) = <<>> THEN
            [exc |-> "SignatureNotFoundError", msg |-> "No signature found for extension",
             result |-> <<>>]
        ELSE
            [exc |-> "none", msg |-> "", result |-> [i \in 1..Len(order) |-> Pair(order[i])]]

\* the characters of the model's extensions in code-point order, the order of
\* SQLite's BINARY collation
CharOrder ==
    <<".", "0","1","2","3","4","5","6","7","8","9">> \o UpperChars \o LowerChars

Ord(c) == CHOOSE i \in 1..Len(CharOrder) : CharOrder[i] = c

\* a < b in the BINARY collation: at the first position where they differ a
\* has the smaller character, or a is a proper prefix of b
StrLess(a, b) ==
    \E k \in 1..(Len(b)) :
        /\ \A j \in 1..(k - 1) : j <= Len(a) /\ a[j] = b[j]
        /\ k - 1 <= Len(a)
        /\ (k > Len(a) \/ Ord(a[k]) < Ord(b[k]))

\* the strings of a set in ascending order
RECURSIVE SortStrings(_)
SortStrings(S) ==
    IF S = {} THEN <<>>
    ELSE LET least == CHOOSE a \in S : \A b \in S \ {a} : StrLess(a, b)
         IN  <<least>> \o SortStrings(S \ {least})

\* the distinct values of a sequence, each at its first occurrence
RECURSIVE Distinct(_)
Distinct(s) ==
    IF s = <<>> THEN <<>>
    ELSE LET d == Distinct(SubSeq(s, 1, Len(s) - 1))
         IN  IF \E i \in 1..Len(d) : d[i] = s[Len(s)] THEN d ELSE Append(d, s[Len(s)])

\* get_all_extensions without the ORDER BY: the extensions as they were added
get_all_extensions_unordered(rows, fault) ==
    IF fault THEN
        [exc |-> "DatabaseError", msg |-> "Failed to retrieve extensions", result |-> <<>>]
    ELSE
        [exc |-> "none", msg |-> "",
         result |-> Distinct([i \in 1..Len(rows) |-> rows[i].extension])]

\* Database.get_all_extensions:
\* SELECT DISTINCT extension FROM signatures ORDER BY extension
get_all_extensions(rows, fault) ==
    IF fault THEN
        [exc |-> "DatabaseError", msg |-> "Failed to retrieve extensions", result |-> <<>>]
    ELSE
        [exc |-> "none", msg |-> "",
         result |-> SortStrings({ rows[i].extension : i \in 1..Len(rows) })]

\* signature_count counting the extensions instead of the rows
signature_count_extensions(rows, fault) ==
    IF fault THEN
        [exc |-> "DatabaseError", msg |-> "Failed to count signatures", result |-> 0]
    ELSE
        [exc |-> "none", msg |-> "",
         result |-> Cardinality({ rows[i].extension : i \in 1..Len(rows) })]

\* Database.signature_count: SELECT COUNT(*) FROM signatures
signature_count(rows, fault) ==
    IF fault THEN
        [exc |-> "DatabaseError", msg |-> "Failed to count signatures", result |-> 0]
    ELSE
        [exc |-> "none", msg |-> "", result |-> Len(rows)]

\* close without the test of self.conn: a second call fails on None
close_unguarded(c, rows, n) ==
    IF c = "open"
    THEN [exc |-> "none", conn |-> "closed", rows |-> SubSeq(rows, 1, n)]
    ELSE [exc |-> "AttributeError", conn |-> c, rows |-> rows]

\* Database.close on a store whose connection is c and whose first n rows are
\* committed: sqlite3's close() drops the rows of an open transaction; without
\* a connection the method does nothing
close(c, rows, n) ==
    IF c = "open"
    THEN [exc |-> "none", conn |-> "closed", rows |-> SubSeq(rows, 1, n)]
    ELSE [exc |-> "none", conn |-> c, rows |-> rows]

\* __exit__ closing the store only when the block ended without an exception
context_exit_normal_only(c, rows, n, exc_type) ==
    IF exc_type = "none"
    THEN [exc |-> "none", conn |-> close(c, rows, n).conn,
          rows |-> close(c, rows, n).rows, suppress |-> FALSE]
    ELSE [exc |-> "none", conn |-> c, rows |-> rows, suppress |-> FALSE]

\* Database.__exit__(exc_type, exc_val, exc_tb) and FileValidator.__exit__,
\* which calls FileValidator.close and through it Database.close: the method
\* closes the store whatever exc_type is and returns None, so that the
\* exception of the block, if any, goes on to the caller
context_exit(c, rows, n, exc_type) ==
    [exc |-> close(c, rows, n).exc, conn |-> close(c, rows, n).conn,
     rows |-> close(c, rows, n).rows, suppress |-> FALSE]

\* a query method of a store without a connection that returns an empty
\* result instead of failing
closed_call_returns == [exc |-> "none", msg |-> ""]

\* a query method of a store without a connection: self.conn.cursor() raises
\* AttributeError, which the handlers of sqlite3.Error do not catch
closed_call ==
    [exc |-> "AttributeError", msg |-> "'NoneType' object has no attribute 'cursor'"]

(***************************************************************************)
(* Files.  A file is its name, what the file system says about it (exists, *)
(* is_file for a regular file, readable for the read permission of the     *)
(* process, what os.access(path, R_OK) tells; open() succeeds on a regular *)
(* file that is readable and fails on a directory), its                    *)
(* content (the bytes of head followed by zero bytes up to size) and what  *)
(* the zipfile module finds in it: zip is "no" (is_zipfile is false),      *)
(* "ok" (a readable container listing names) or "bad" (an end-of-central-  *)
(* directory record is found but opening raises BadZipFile).               *)
(***************************************************************************)
Min(a, b) == IF a < b THEN a ELSE b

Max(a, b) == IF a > b THEN a ELSE b

\* str.rfind('.') as a 1-based position, 0 when there is no dot
RFindDot(s) ==
    IF \E i \in 1..Len(s) : s[i] = "."
    THEN CHOOSE i \in 1..Len(s) : s[i] = "." /\ \A j \in (i + 1)..Len(s) : s[j] # "."
    ELSE 0

\* the components of a path as pathlib parses it: the parts between the
\* slashes, without the empty ones and the ones that are a single dot
RECURSIVE PathParts(_, _, _)
PathParts(path, part, parts) ==
    LET closed == IF part = <<>> \/ part = <<".">> THEN parts ELSE Append(parts, part)
    IN  IF path = <<>> THEN closed
        ELSE IF Head(path) = "/" THEN PathParts(Tail(path), <<>>, closed)
        ELSE PathParts(Tail(path), Append(part, Head(path)), parts)

\* pathlib's PurePath.name: the final component of the path
PathName(path) ==
    LET parts == PathParts(path, <<>>, <<>>)
    IN  IF parts = <<>> THEN <<>> ELSE parts[Len(parts)]

\* pathlib's PurePath.suffix: the final component from its last dot on,
\* unless that dot is its first or its last character
Suffix(path) ==
    LET name == PathName(path)
        i == RFindDot(name)
    IN  IF 1 < i /\ i < Len(name) THEN SubSeq(name, i, Len(name)) ELSE <<>>

ByteAt(f, pos) == IF pos < Len(f.head) THEN f.head[pos + 1] ELSE 0

\* f.seek(offset) and f.read(length) on a file opened in binary mode: seek
\* raises OSError on a negative offset; read raises ValueError on a length
\* below -1, reads up to end-of-file on -1, and otherwise returns the bytes of
\* the file at positions [offset, offset + length), cut at end-of-file
Content(f, length, offset) ==
    IF offset < 0 THEN [exc |-> "OSError", bytes |-> <<>>]
    ELSE IF length < -1 THEN [exc |-> "ValueError", bytes |-> <<>>]
    ELSE
        LET rest == Max(0, f.size - offset)
        IN  [exc |-> "none",
             bytes |-> [k \in 1..(IF length = -1 THEN rest ELSE Min(length, rest)) |->
                           ByteAt(f, offset + k - 1)]]

(***************************************************************************)
(* Reader strategies (core/readers.py).                                    *)
(***************************************************************************)
SIMPLE_FILE_TYPES ==
    { <<"p","d","f">>, <<"p","n","g">>, <<"j","p","g">>, <<"j","p","e","g">>,
      <<"g","i","f">>, <<"b","m","p">>, <<"i","c","o">>, <<"w","e","b","p">>,
      <<"m","p","3">>, <<"m","p","4">>, <<"a","v","i">>, <<"m","k","v">>,
      <<"w","a","v">>, <<"f","l","a","c">>, <<"e","x","e">>, <<"d","l","l">>,
      <<"e","l","f">>, <<"t","a","r">>, <<"g","z">>, <<"r","a","r">>,
      <<"7","z">>, <<"x","m","l">>, <<"h","t","m","l">>, <<"j","s","o","n">>,
      <<"s","q","l","i","t","e">>, <<"d","b">> }

DOCX == <<"d","o","c","x">>

XLSX == <<"x","l","s","x">>

PPTX == <<"p","p","t","x">>

ZIP == <<"z","i","p">>

\* the keys of ZipBasedReader.OFFICE_FILE_STRUCTURES
OfficeTypes == {DOCX, XLSX, PPTX}

\* ZipBasedReader.OFFICE_FILE_STRUCTURES[extension]
OFFICE_FILE_STRUCTURES(extension) ==
    IF extension = DOCX THEN {"[Content_Types].xml", "word/document.xml"}
    ELSE IF extension = XLSX THEN {"[Content_Types].xml", "xl/workbook.xml"}
    ELSE {"[Content_Types].xml", "ppt/presentation.xml"}

\* ReaderFactory._readers, in the order of the list
Readers == <<"ZipBasedReader", "PlainZipReader", "SimpleReader">>

\* supports_file_type with a generic-archive reader that also takes the
\* office documents, which are archives
supports_file_type_archives(reader, extension) ==
    IF reader = "ZipBasedReader" THEN StrLower(extension) \in OfficeTypes
    ELSE IF reader = "PlainZipReader" THEN StrLower(extension) \in OfficeTypes \cup {ZIP}
    ELSE StrLower(extension) \in SIMPLE_FILE_TYPES

\* <reader>.supports_file_type(extension)
supports_file_type(reader, extension) ==
    IF reader = "ZipBasedReader" THEN StrLower(extension) \in OfficeTypes
    ELSE IF reader = "PlainZipReader" THEN StrLower(extension) = ZIP
    ELSE StrLower(extension) \in SIMPLE_FILE_TYPES

\* get_reader falling back to the first reader of the list
get_reader_first_fallback(extension) ==
    LET ext == StrLower(extension)
        hits == { i \in 1..Len(Readers) : supports_file_type(Readers[i], ext) }
    IN  IF hits # {}
        THEN Readers[CHOOSE i \in hits : \A j \in hits : i <= j]
        ELSE Readers[1]

\* ReaderFactory.get_reader: the first reader of the list that supports the
\* lowercased extension, the last reader of the list when none does
get_reader(extension) ==
    LET ext == StrLower(extension)
        hits == { i \in 1..Len(Readers) : supports_file_type(Readers[i], ext) }
    IN  IF hits # {}
        THEN Readers[CHOOSE i \in hits : \A j \in hits : i <= j]
        ELSE Readers[Len(Readers)]

\* ReaderFactory.get_reader on a factory whose list is readers
get_reader_of(readers, extension) ==
    LET ext == StrLower(extension)
        hits == { i \in 1..Len(readers) : supports_file_type(readers[i], ext) }
    IN  IF hits # {}
        THEN readers[CHOOSE i \in hits : \A j \in hits : i <= j]
        ELSE readers[Len(readers)]

\* the lists of the three readers that end with the flat-binary reader
ReaderOrders ==
    { o \in [1..Len(Readers) -> { Readers[i] : i \in 1..Len(Readers) }] :
        /\ \A i, j \in 1..Len(Readers) : i # j => o[i] # o[j]
        /\ o[Len(Readers)] = "SimpleReader" }

\* the outcome of the with block of read_signature: the IOError (= OSError)
\* of seek becomes FileReadError, the ValueError of read is not caught
ReadOutcome(r) ==
    IF r.exc = "OSError" THEN [exc |-> "FileReadError", bytes |-> <<>>] ELSE r

\* read_signature without the seek: the bytes at the start of the file
read_signature_no_seek(reader, f, length, offset) ==
    IF ~f.exists \/ ~f.is_file \/ ~f.readable THEN
        [exc |-> "FileReadError", bytes |-> <<>>]
    ELSE
        ReadOutcome(Content(f, length, 0))

\* read_signature filling a short read up to the requested length with zero
\* bytes
read_signature_padded(reader, f, length, offset) ==
    IF ~f.exists \/ ~f.is_file \/ ~f.readable THEN
        [exc |-> "FileReadError", bytes |-> <<>>]
    ELSE IF offset = Null THEN
        [exc |-> "TypeError", bytes |-> <<>>]
    ELSE
        LET r == ReadOutcome(Content(f, length, IntOf(offset)))
        IN  IF r.exc # "none" THEN r
            ELSE [exc |-> "none",
                  bytes |-> r.bytes \o [k \in 1..(length - Len(r.bytes)) |-> 0]]

\* <reader>.read_signature(file_path, length, offset); the three readers share
\* the code.  open() fails with IOError on a missing, unreadable or non-regular
\* file, seek() with OSError on a negative offset (both become FileReadError)
\* and with an uncaught TypeError on None; read() fails with an uncaught
\* ValueError on a length below -1.
read_signature(reader, f, length, offset) ==
    IF ~f.exists \/ ~f.is_file \/ ~f.readable THEN
        [exc |-> "FileReadError", bytes |-> <<>>]
    ELSE IF offset = Null THEN
        [exc |-> "TypeError", bytes |-> <<>>]
    ELSE
        ReadOutcome(Content(f, length, IntOf(offset)))

\* zipfile.is_zipfile(file_path): false, never an exception, when the file
\* cannot be opened
is_zipfile(f) == f.exists /\ f.is_file /\ f.readable /\ f.zip # "no"

\* validate_structure content with one of the required paths
validate_structure_any_required(reader, f, extension) ==
    IF reader = "SimpleReader" THEN
        [exc |-> "none", value |-> TRUE]
    ELSE IF reader = "PlainZipReader" THEN
        [exc |-> "none", value |-> is_zipfile(f)]
    ELSE
        LET ext == StrLower(extension)
        IN  IF ext \notin OfficeTypes THEN [exc |-> "none", value |-> FALSE]
            ELSE IF ~is_zipfile(f) THEN [exc |-> "none", value |-> FALSE]
            ELSE IF f.zip = "bad" THEN [exc |-> "FileReadError", value |-> FALSE]
            ELSE [exc |-> "none",
                  value |-> \E required_file \in OFFICE_FILE_STRUCTURES(ext) :
                                required_file \in f.names]

\* <reader>.validate_structure(file_path, extension): the value returned, or
\* the exception raised
validate_structure(reader, f, extension) ==
    IF reader = "SimpleReader" THEN
        [exc |-> "none", value |-> TRUE]
    ELSE IF reader = "PlainZipReader" THEN
        [exc |-> "none", value |-> is_zipfile(f)]
    ELSE
        LET ext == StrLower(extension)
        IN  IF ext \notin OfficeTypes THEN [exc |-> "none", value |-> FALSE]
            ELSE IF ~is_zipfile(f) THEN [exc |-> "none", value |-> FALSE]
            ELSE IF f.zip = "bad" THEN [exc |-> "FileReadError", value |-> FALSE]
            ELSE [exc |-> "none",
                  value |-> \A required_file \in OFFICE_FILE_STRUCTURES(ext) :
                                required_file \in f.names]

(***************************************************************************)
(* The validator (core/validator.py).  An outcome of validate is the       *)
(* exception raised ("none" when it returns, and then value is what it     *)
(* returns) together with what the call did: compared lists the records    *)
(* handed to _check_signature, reads the (length, offset) reads of the     *)
(* file, structure_calls counts the validate_structure calls and lookups   *)
(* the get_signatures calls; expected and found are the two patterns of    *)
(* the mismatch message.                                                   *)
(***************************************************************************)
Outcome(exc, msg, value) ==
    [exc |-> exc, msg |-> msg, value |-> value, reader |-> "", extension |-> <<>>,
     compared |-> <<>>, reads |-> <<>>, structure_calls |-> 0, lookups |-> 0,
     expected |-> <<>>, found |-> <<>>]

\* line 123 of validate: path.suffix.lstrip('.').lower()
file_extension(f) == StrLower(LStripDot(Suffix(f.name)))

\* the checks of lines 96-127 with a file of exactly the maximum size rejected
precheck_size_inclusive(f) ==
    IF ~f.exists THEN "File not found"
    ELSE IF ~f.is_file THEN "Path is not a file"
    ELSE IF f.size >= MAX_FILE_SIZE THEN "File too large"
    ELSE IF file_extension(f) = <<>> THEN "File has no extension"
    ELSE "ok"

\* the checks of lines 96-127 with the extension looked at before the size
precheck_extension_first(f) ==
    IF ~f.exists THEN "File not found"
    ELSE IF ~f.is_file THEN "Path is not a file"
    ELSE IF file_extension(f) = <<>> THEN "File has no extension"
    ELSE IF f.size > MAX_FILE_SIZE THEN "File too large"
    ELSE "ok"

\* lines 96-127 of validate: the first check the path fails, "ok" when none
precheck(f) ==
    IF ~f.exists THEN "File not found"
    ELSE IF ~f.is_file THEN "Path is not a file"
    ELSE IF f.size > MAX_FILE_SIZE THEN "File too large"
    ELSE IF file_extension(f) = <<>> THEN "File has no extension"
    ELSE "ok"

\* _check_signature with a decoder that takes hexadecimal digits only and
\* fails on whitespace
check_signature_digits_only(f, magic_hex, offset, reader) ==
    LET expected == IF \E k \in 1..Len(magic_hex) : IsSpace(magic_hex[k])
                    THEN [ok |-> FALSE, bytes |-> <<>>]
                    ELSE fromhex(magic_hex)
    IN  IF ~expected.ok THEN
            [exc |-> "InvalidSignatureError", match |-> FALSE, reads |-> <<>>]
        ELSE
            LET actual == read_signature(reader, f, Len(expected.bytes), offset)
                reads == << <<Len(expected.bytes), offset>> >>
            IN  IF actual.exc # "none"
                THEN [exc |-> actual.exc, match |-> FALSE, reads |-> reads]
                ELSE [exc |-> "none", match |-> actual.bytes = expected.bytes,
                      reads |-> reads]

\* FileValidator._check_signature(file_path, magic_hex, offset, reader)
check_signature(f, magic_hex, offset, reader) ==
    LET expected == fromhex(magic_hex)
    IN  IF ~expected.ok THEN
            [exc |-> "InvalidSignatureError", match |-> FALSE, reads |-> <<>>]
        ELSE
            LET actual == read_signature(reader, f, Len(expected.bytes), offset)
                reads == << <<Len(expected.bytes), offset>> >>
            IN  IF actual.exc # "none"
                THEN [exc |-> actual.exc, match |-> FALSE, reads |-> reads]
                ELSE [exc |-> "none", match |-> actual.bytes = expected.bytes,
                      reads |-> reads]

\* one turn of the loop that goes on to the next record when the structural
\* check fails
loop_body_fall_through(f, extension, reader, signatures, i) ==
    LET c == check_signature(f, signatures[i][1], signatures[i][2], reader)
    IN  IF c.exc # "none" THEN
            [continue |-> FALSE, reads |-> c.reads, structure_calls |-> 0,
             out |-> Outcome(c.exc, "check failed", FALSE)]
        ELSE IF c.match /\ validate_structure(reader, f, extension).exc = "none"
                        /\ validate_structure(reader, f, extension).value THEN
            [continue |-> FALSE, reads |-> c.reads, structure_calls |-> 1,
             out |-> Outcome("none", "", TRUE)]
        ELSE
            [continue |-> TRUE, reads |-> c.reads, structure_calls |-> 0,
             out |-> Outcome("none", "", FALSE)]

\* lines 139-153 of validate: one turn of the loop, on the record at index i.
\* continue tells whether the loop goes on to the next record; when it does
\* not, out is how validate ends.
loop_body(f, extension, reader, signatures, i) ==
    LET magic_hex == signatures[i][1]
        offset == signatures[i][2]
        c == check_signature(f, magic_hex, offset, reader)
    IN  IF c.exc # "none" THEN
            [continue |-> FALSE, reads |-> c.reads, structure_calls |-> 0,
             out |-> Outcome(c.exc, "check failed", FALSE)]
        ELSE IF c.match THEN
            LET s == validate_structure(reader, f, extension)
            IN  [continue |-> FALSE, reads |-> c.reads, structure_calls |-> 1,
                 out |->
                    IF s.exc # "none" THEN Outcome(s.exc, "Corrupted ZIP file", FALSE)
                    ELSE IF s.value THEN Outcome("none", "", TRUE)
                    ELSE Outcome("ValidationError",
                                 "failed internal structure validation", FALSE)]
        ELSE
            [continue |-> TRUE, reads |-> c.reads, structure_calls |-> 0,
             out |-> Outcome("none", "", FALSE)]

\* lines 155-162 of validate with the diagnostic read made at the offset of
\* the last record
no_match_record_offset(f, reader, signatures) ==
    LET actual_bytes == read_signature(reader, f, DiagLength,
                                       signatures[Len(signatures)][2])
    IN  IF actual_bytes.exc # "none"
        THEN Outcome(actual_bytes.exc, "Failed to read file", FALSE)
        ELSE [Outcome("ValidationError", "magic bytes don't match", FALSE)
                EXCEPT !.expected = signatures[Len(signatures)][1],
                       !.found = HexUpper(actual_bytes.bytes)]

\* lines 155-162 of validate: no record matched
no_match(f, reader, signatures) ==
    LET actual_bytes == read_signature(reader, f, DiagLength, Offset(0))
    IN  IF actual_bytes.exc # "none"
        THEN Outcome(actual_bytes.exc, "Failed to read file", FALSE)
        ELSE [Outcome("ValidationError", "magic bytes don't match", FALSE)
                EXCEPT !.expected = signatures[Len(signatures)][1],
                       !.found = HexUpper(actual_bytes.bytes)]

\* lines 138-162 of validate: the loop from the record at index i on, after
\* the given reads, and what follows it
RECURSIVE signature_loop(_, _, _, _, _, _)
signature_loop(f, extension, reader, signatures, i, reads) ==
    IF i > Len(signatures) THEN
        [no_match(f, reader, signatures)
            EXCEPT !.compared = signatures,
                   !.reads = Append(reads, <<DiagLength, Offset(0)>>)]
    ELSE
        LET b == loop_body(f, extension, reader, signatures, i)
        IN  IF b.continue
            THEN signature_loop(f, extension, reader, signatures, i + 1,
                                reads \o b.reads)
            ELSE [b.out EXCEPT !.compared = SubSeq(signatures, 1, i),
                               !.reads = reads \o b.reads,
                               !.structure_calls = b.structure_calls]

\* FileValidator.validate(file_path) on the table rows, the rows of the
\* extension coming back from the store in the given order
validate(rows, f, order, fault) ==
    LET pre == precheck(f)
        extension == file_extension(f)
    IN  IF pre \in {"File not found", "Path is not a file", "File too large"} THEN
            Outcome("FileReadError", pre, FALSE)
        ELSE IF pre = "File has no extension" THEN
            Outcome("ValidationError", pre, FALSE)
        ELSE
            LET reader == get_reader(extension)
                sigs == get_signatures(rows, extension, order, fault)
            IN  IF sigs.exc # "none" THEN
                    [Outcome(sigs.exc, sigs.msg, FALSE)
                        EXCEPT !.reader = reader, !.extension = extension,
                               !.lookups = 1]
                ELSE
                    [signature_loop(f, extension, reader, sigs.result, 1, <<>>)
                        EXCEPT !.reader = reader, !.extension = extension,
                               !.lookups = 1]

\* FileValidator.validate(file_path) when the store has no connection: the
\* checks of the path come first, then get_signatures raises AttributeError
validate_closed(f) ==
    LET pre == precheck(f)
        extension == file_extension(f)
    IN  IF pre \in {"File not found", "Path is not a file", "File too large"} THEN
            Outcome("FileReadError", pre, FALSE)
        ELSE IF pre = "File has no extension" THEN
            Outcome("ValidationError", pre, FALSE)
        ELSE
            [Outcome(closed_call.exc, closed_call.msg, FALSE)
                EXCEPT !.reader = get_reader(extension), !.extension = extension,
                       !.lookups = 1]

(***************************************************************************)
(* SHA-256 (FIPS 180-4), what hashlib.sha256 computes.  A word is a        *)
(* sequence of 32 bits, the most significant first; the constants are      *)
(* written as the two 16-bit halves of each word, and sums are taken on    *)
(* the halves, so that no number leaves the range of TLC's integers.       *)
(***************************************************************************)
\* the n bits of the number v
Bits(v, n) == [i \in 1..n |-> (v \div 2^(n - i)) % 2]

\* the number written by the first n bits of a
RECURSIVE BitsVal(_, _)
BitsVal(a, n) == IF n = 0 THEN 0 ELSE 2 * BitsVal(a, n - 1) + a[n]

\* the word whose halves are p[1] and p[2]
Word(p) == Bits(p[1], 16) \o Bits(p[2], 16)

Hi(w) == BitsVal(SubSeq(w, 1, 16), 16)

Lo(w) == BitsVal(SubSeq(w, 17, 32), 16)

RECURSIVE SumHi(_)
SumHi(ws) == IF ws = <<>> THEN 0 ELSE Hi(Head(ws)) + SumHi(Tail(ws))

RECURSIVE SumLo(_)
SumLo(ws) == IF ws = <<>> THEN 0 ELSE Lo(Head(ws)) + SumLo(Tail(ws))

\* the sum of the words ws modulo 2^32
Add(ws) == Word(<<(SumHi(ws) + SumLo(ws) \div 65536) % 65536, SumLo(ws) % 65536>>)

Xor3(a, b, c) == [i \in 1..32 |-> (a[i] + b[i] + c[i]) % 2]

Ch(e, f, g) == [i \in 1..32 |-> IF e[i] = 1 THEN f[i] ELSE g[i]]

Maj(a, b, c) == [i \in 1..32 |-> IF a[i] + b[i] + c[i] >= 2 THEN 1 ELSE 0]

Rotr(a, n) == [i \in 1..32 |-> a[((i - 1 - n + 32) % 32) + 1]]

Shr(a, n) == [i \in 1..32 |-> IF i <= n THEN 0 ELSE a[i - n]]

BigSigma0(a) == Xor3(Rotr(a, 2), Rotr(a, 13), Rotr(a, 22))

BigSigma1(e) == Xor3(Rotr(e, 6), Rotr(e, 11), Rotr(e, 25))

SmallSigma0(w) == Xor3(Rotr(w, 7), Rotr(w, 18), Shr(w, 3))

SmallSigma1(w) == Xor3(Rotr(w, 17), Rotr(w, 19), Shr(w, 10))

\* the round constants
K == <<
    <<17034, 12184>>, <<28983, 17553>>, <<46528, 64463>>, <<59829, 56229>>,
    <<14678, 49755>>, <<23025, 4593>>, <<37439, 33444>>, <<43804, 24277>>,
    <<55303, 43672>>, <<4739, 23297>>, <<9265, 34238>>, <<21772, 32195>>,
    <<29374, 23924>>, <<32990, 45566>>, <<39900, 1703>>, <<49563, 61812>>,
    <<58523, 27073>>, <<61374, 18310>>, <<4033, 40390>>, <<9228, 41420>>,
    <<11753, 11375>>, <<19060, 33962>>, <<23728, 43484>>, <<30457, 35034>>,
    <<38974, 20818>>, <<43057, 50797>>, <<45059, 10184>>, <<48985, 32711>>,
    <<50912, 3059>>, <<54695, 37191>>, <<1738, 25425>>, <<5161, 10599>>,
    <<10167, 2693>>, <<11803, 8504>>, <<19756, 28156>>, <<21304, 3347>>,
    <<25866, 29524>>, <<30314, 2747>>, <<33218, 51502>>, <<37490, 11397>>,
    <<41663, 59553>>, <<43034, 26187>>, <<49739, 35696>>, <<51052, 20899>>,
    <<53650, 59417>>, <<54937, 1572>>, <<62478, 13701>>, <<4202, 41072>>,
    <<6564, 49430>>, <<7735, 27656>>, <<10056, 30540>>, <<13488, 48309>>,
    <<14620, 3251>>, <<20184, 43594>>, <<23452, 51791>>, <<26670, 28659>>,
    <<29839, 33518>>, <<30885, 25455>>, <<33992, 30740>>, <<36039, 520>>,
    <<37054, 65530>>, <<42064, 27883>>, <<48889, 41975>>, <<50801, 30962>> >>

\* the initial hash value
H0 == <<
    <<27145, 58983>>, <<47975, 44677>>, <<15470, 62322>>, <<42319, 62778>>,
    <<20750, 21119>>, <<39685, 26764>>, <<8067, 55723>>, <<23520, 52505>> >>

\* the message schedule of a block, from its first 16 words
RECURSIVE Schedule(_)
Schedule(w) ==
    IF Len(w) = 64 THEN w
    ELSE LET t == Len(w) + 1
         IN  Schedule(Append(w, Add(<<SmallSigma1(w[t - 2]), w[t - 7],
                                      SmallSigma0(w[t - 15]), w[t - 16]>>)))

\* one round on the working variables s = <<a, b, c, d, e, f, g, h>>
Round(s, kt, wt) ==
    LET T1 == Add(<<s[8], BigSigma1(s[5]), Ch(s[5], s[6], s[7]), kt, wt>>)
        T2 == Add(<<BigSigma0(s[1]), Maj(s[1], s[2], s[3])>>)
    IN  <<Add(<<T1, T2>>), s[1], s[2], s[3], Add(<<s[4], T1>>), s[5], s[6], s[7]>>

RECURSIVE Rounds(_, _, _)
Rounds(s, w, t) ==
    IF Len(s) = 8 /\ t > 64 THEN s ELSE Rounds(Round(s, Word(K[t]), w[t]), w, t + 1)

\* the hash value after block i (counted from 0) of the padded message p
Compress(h, p, i) ==
    LET w == Schedule([t \in 1..16 |->
                 Bits(p[64*i + 4*t - 3], 8) \o Bits(p[64*i + 4*t - 2], 8)
                     \o Bits(p[64*i + 4*t - 1], 8) \o Bits(p[64*i + 4*t], 8)])
        s == Rounds(h, w, 1)
    IN  [k \in 1..8 |-> Add(<<h[k], s[k]>>)]

\* the message m followed by the byte 80, zero bytes up to 56 modulo 64 and
\* the length of m in bits as 8 bytes
Pad(m) ==
    LET n == Len(m)
        z == (119 - (n % 64)) % 64
        bits == 8 * n
    IN  m \o <<128>> \o [i \in 1..z |-> 0] \o <<0, 0, 0, 0>>
          \o <<(bits \div 16777216) % 256, (bits \div 65536) % 256,
               (bits \div 256) % 256, bits % 256>>

RECURSIVE Blocks(_, _, _)
Blocks(h, p, i) ==
    IF Len(h) = 8 /\ 64 * i >= Len(p) THEN h
    ELSE Blocks(Compress(h, p, i), p, i + 1)

\* the digits of hexdigest()
LowerHexChars == <<"0","1","2","3","4","5","6","7","8","9","a","b","c","d","e","f">>

HexOfWord(w) == [i \in 1..8 |-> LowerHexChars[BitsVal(SubSeq(w, 4*i - 3, 4*i), 4) + 1]]

\* hashlib.sha256(m).hexdigest() for the bytes m
sha256_hexdigest(m) ==
    LET h == CHOOSE r \in { Blocks([i \in 1..8 |-> Word(H0[i])], p, 0) : p \in {Pad(m)} } : TRUE
    IN  HexOfWord(h[1]) \o HexOfWord(h[2]) \o HexOfWord(h[3]) \o HexOfWord(h[4])
          \o HexOfWord(h[5]) \o HexOfWord(h[6]) \o HexOfWord(h[7]) \o HexOfWord(h[8])

(***************************************************************************)
(* FileValidator.get_file_hash.                                            *)
(***************************************************************************)
\* the chunks of a sequence of chunks, one after the other
RECURSIVE Concat(_)
Concat(chunks) == IF chunks = <<>> THEN <<>> ELSE Head(chunks) \o Concat(Tail(chunks))

\* the read loop that stops after its first chunk
read_chunks_first_only(f, pos, chunks) ==
    IF Content(f, ChunkSize, pos).bytes = <<>> THEN chunks
    ELSE Append(chunks, Content(f, ChunkSize, pos).bytes)

\* lines 224-225: iter(lambda: f.read(8192), b''), the chunks handed to
\* sha256.update from the position pos of the file on; the loop ends with the
\* first empty chunk
RECURSIVE read_chunks(_, _, _)
read_chunks(f, pos, chunks) ==
    IF Content(f, ChunkSize, pos).bytes = <<>> THEN chunks
    ELSE read_chunks(f, pos + Len(Content(f, ChunkSize, pos).bytes),
                     Append(chunks, Content(f, ChunkSize, pos).bytes))

\* lines 220-225 and 231-234 of get_file_hash: the bytes handed to the hash,
\* or FileReadError when the file cannot be opened
hash_input(f) ==
    IF ~f.exists \/ ~f.is_file \/ ~f.readable THEN
        [exc |-> "FileReadError", chunks |-> <<>>, message |-> <<>>]
    ELSE
        LET chunks == read_chunks(f, 0, <<>>)
        IN  [exc |-> "none", chunks |-> [i \in 1..Len(chunks) |-> Len(chunks[i])],
             message |-> Concat(chunks)]

\* FileValidator.get_file_hash(file_path)
get_file_hash(f) ==
    IF hash_input(f).exc # "none" THEN
        [exc |-> hash_input(f).exc, digest |-> <<>>]
    ELSE
        [exc |-> "none", digest |-> sha256_hexdigest(hash_input(f).message)]

(***************************************************************************)
(* The bulk loader (utils/data_loader.py).  A document is the JSON file:   *)
(* exists and parses tell whether the file is there and is JSON, entries   *)
(* is its "signatures" array; an entry has the keys extension and          *)
(* magic_bytes and, when has_offset is true, the key offset (Null for the  *)
(* JSON null).                                                             *)
(***************************************************************************)
\* DataLoader._validate_structure on the entries: bytes.fromhex accepts the
\* pattern of every entry as it is written
loader_validate_structure(entries) ==
    \A i \in 1..Len(entries) : fromhex(entries[i].magic_bytes).ok

\* sig_data.get('offset', 0)
entry_offset(sig_data) == IF sig_data.has_offset THEN sig_data.offset ELSE Offset(0)

\* lines 69-85 of load_signatures: the loop from the entry at index i on, over
\* the table rows of which the first n are durable, on a store whose
\* connection is c; faults[i] is the fault of the backing store that meets
\* the add_signature call of entry i.  Every exception of the call is caught
\* and the entry skipped.
RECURSIVE load_loop(_, _, _, _, _, _, _)
load_loop(rows, n, c, signatures, faults, i, loaded_count) ==
    IF i > Len(signatures) THEN
        [exc |-> "none", rows |-> rows, committed |-> n, loaded |-> loaded_count]
    ELSE IF c # "open" THEN
        load_loop(rows, n, c, signatures, faults, i + 1, loaded_count)
    ELSE
        LET r == add_signature(rows, n, signatures[i].extension,
                               signatures[i].magic_bytes, entry_offset(signatures[i]),
                               faults[i])
        IN  load_loop(r.rows, IF r.committed THEN Len(r.rows) ELSE n, c, signatures,
                      faults, i + 1, IF r.exc = "none" THEN loaded_count + 1
                                     ELSE loaded_count)

\* DataLoader.load_signatures(source_path, database)
load_signatures(rows, n, c, doc, faults) ==
    IF ~doc.exists THEN
        [exc |-> "FileNotFoundError", rows |-> rows, committed |-> n, loaded |-> 0]
    ELSE IF ~doc.parses THEN
        [exc |-> "JSONDecodeError", rows |-> rows, committed |-> n, loaded |-> 0]
    ELSE IF ~loader_validate_structure(doc.entries) THEN
        [exc |-> "ValueError", rows |-> rows, committed |-> n, loaded |-> 0]
    ELSE
        load_loop(rows, n, c, doc.entries, faults, 1, 0)

(***************************************************************************)
(* The commands (cli/commands.py).  A command runs in a process of its     *)
(* own: it creates a FileValidator, which opens the store, and ends with   *)
(* sys.exit.  The result of a command tells whether the validator was      *)
(* created, whether FileValidator.close was called, the exit status, and   *)
(* the table and the connection as the command leaves them.                *)
(***************************************************************************)
\* initialize_default_signatures(database) on a store whose connection is c:
\* nothing when signature_count returns a positive number.  A count that
\* raises (AttributeError on a store without a connection, DatabaseError on
\* a fault of the backing store) is caught and logged, and the function goes
\* on as for an empty store: the document found at one of the three
\* locations is loaded, and without a document the result is 0
initialize_default_signatures(rows, n, c, doc, faults, count_fault) ==
    LET count == IF c # "open"
                 THEN [exc |-> closed_call.exc, msg |-> closed_call.msg, result |-> 0]
                 ELSE signature_count(rows, count_fault)
    IN  IF count.exc = "none" /\ count.result > 0 THEN
            [exc |-> "none", rows |-> rows, committed |-> n, loaded |-> 0]
        ELSE IF ~doc.exists THEN
            [exc |-> "none", rows |-> rows, committed |-> n, loaded |-> 0]
        ELSE
            load_signatures(rows, n, c, doc, faults)

\* lines 64-71 of scan, 124-129 of scan_dir and 200-207 of list_signatures:
\* the validator (for list_signatures the store) is created and the store is
\* filled from the default document when it is empty.  The count that
\* initialize_default_signatures takes again is taken not to fail: a failure
\* there is caught and leads to the load as the count of 0 does.
\* failing is the set of the display functions that raise in this run;
\* display_info is called before the load, and after it when records were
\* loaded.
command_setup(rows, n, doc, faults, count_fault, failing) ==
    LET count == signature_count(rows, count_fault)
    IN  IF count.exc # "none" THEN
            [exc |-> count.exc, rows |-> rows, committed |-> n]
        ELSE IF count.result = 0 THEN
            IF "display_info" \in failing THEN
                [exc |-> "Exception", rows |-> rows, committed |-> n]
            ELSE
                LET r == initialize_default_signatures(rows, n, "open", doc, faults,
                                                       FALSE)
                IN  [exc |-> r.exc, rows |-> r.rows, committed |-> r.committed]
        ELSE
            [exc |-> "none", rows |-> rows, committed |-> n]

\* how a command ends.  An exception caught by a handler of the command
\* ends it with sys.exit(1); when display_error raises in the handler the
\* exception leaves the command and the interpreter ends the process, with
\* status 1 as well.  In both cases the store is left as it is.
CommandResult(created, exc, exit_code, closed, rows, n) ==
    [created |-> created, exc |-> exc, exit_code |-> exit_code, closed |-> closed,
     rows |-> IF closed THEN close("open", rows, n).rows ELSE rows,
     committed |-> n,
     conn |-> IF created /\ ~closed THEN "open" ELSE "closed"]

\* lines 60-61 of scan: with --verbose display_info is called before the
\* validator is created; when it raises the command ends with status 1 and
\* without a validator
scan_not_created(rows, n) == CommandResult(FALSE, "Exception", 1, FALSE, rows, n)

\* scan(file_path, verbose, hash) after the set-up s, the records of the
\* extension coming back in the given order: validate, the display of the
\* result, the digest and its display when it is asked for, close and exit
\* status 0; every exception ends the command with status 1 in one of the
\* handlers of lines 87-102
\* lines 76-85 of scan, out being what validate gave: the display of the
\* result, the digest and its display, close and the exit status
scan_result(s, f, out, hash, hash_fault, failing) ==
    IF out.exc # "none" THEN
        CommandResult(TRUE, out.exc, 1, FALSE, s.rows, s.committed)
    ELSE IF "display_validation_result" \in failing THEN
        CommandResult(TRUE, "Exception", 1, FALSE, s.rows, s.committed)
    ELSE IF hash /\ (hash_fault \/ hash_input(f).exc # "none") THEN
        CommandResult(TRUE, "FileReadError", 1, FALSE, s.rows, s.committed)
    ELSE IF hash /\ "display_file_hash" \in failing THEN
        CommandResult(TRUE, "Exception", 1, FALSE, s.rows, s.committed)
    ELSE
        CommandResult(TRUE, "none", IF out.value THEN 0 ELSE 1, TRUE,
                      s.rows, s.committed)

scan_body(s, f, hash, order, fault, hash_fault, failing) ==
    IF s.exc # "none" THEN
        CommandResult(TRUE, s.exc, 1, FALSE, s.rows, s.committed)
    ELSE
        scan_result(s, f, validate(s.rows, f, order, fault), hash, hash_fault,
                    failing)

\* click.Path(exists=True) on the argument of scan accepts a path that exists
\* and that the process may read (readable is true by default), a file or a
\* directory
click_path(f) == f.exists /\ f.readable

\* a path that click.Path rejects ends the command with status 2 before the
\* function is entered
scan_usage_error(rows, n) == CommandResult(FALSE, "UsageError", 2, FALSE, rows, n)

\* lines 132-138 of scan_dir: the files of the listing, those among them
\* whose extension is asked for when extensions are given
select_files(listing, extensions) ==
    LET ext_set == { normalize_extension(ext) : ext \in extensions }
    IN  SelectSeq(listing, LAMBDA f :
            /\ f.exists
            /\ f.is_file
            /\ (extensions # {} => file_extension(f) \in ext_set))

\* the counters of scan_dir before the loop; validated lists the files
\* handed to validate and tally the counters in the order in which they were
\* incremented
NoCounts ==
    [valid_count |-> 0, invalid_count |-> 0, error_count |-> 0,
     validated |-> <<>>, tally |-> <<>>]

\* the counters after one more increment
Bump(counts, counter) ==
    [valid_count |-> counts.valid_count + (IF counter = "valid" THEN 1 ELSE 0),
     invalid_count |-> counts.invalid_count + (IF counter = "invalid" THEN 1 ELSE 0),
     error_count |-> counts.error_count + (IF counter = "error" THEN 1 ELSE 0),
     validated |-> counts.validated,
     tally |-> Append(counts.tally, counter)]

\* the counters after validate was called on f and one counter incremented
Tally(counts, f, counter) ==
    [Bump(counts, counter) EXCEPT !.validated = Append(counts.validated, f.name)]

\* lines 156-171 of scan_dir: what follows validate for one file.  The
\* counter of the verdict is incremented before the result is displayed
\* (always for a false result, with --verbose for a true one); a display
\* that raises is caught by the handler of line 168, which increments
\* error_count as well.  The handlers call display_error with --verbose;
\* when it raises, the exception leaves the loop.
scan_file(counts, f, out, verbose, failing) ==
    LET shown == out.exc = "none" /\ (verbose \/ ~out.value)
        first == Tally(counts, f,
                       IF out.exc = "none"
                       THEN (IF out.value THEN "valid" ELSE "invalid")
                       ELSE IF out.exc \in {"ValidationError", "SignatureNotFoundError"}
                       THEN "invalid"
                       ELSE "error")
        handled == out.exc # "none"
                      \/ (shown /\ "display_validation_result" \in failing)
        after == IF out.exc = "none" /\ handled THEN Bump(first, "error") ELSE first
    IN  [counts |-> after,
         exc |-> IF handled /\ verbose /\ "display_error" \in failing
                 THEN "Exception" ELSE "none"]

\* lines 152-171 of scan_dir: the loop from the file at index i on; the
\* records of the extension of file i come back in the order orders[i] and
\* faults[i] tells whether the store fails on its lookup.  The result is the
\* counters and the exception that left the loop, if any.
RECURSIVE scan_loop(_, _, _, _, _, _, _, _)
scan_next(rows, files, orders, faults, verbose, failing, i, r) ==
    IF r.exc # "none" THEN r
    ELSE scan_loop(rows, files, orders, faults, verbose, failing, i + 1, r.counts)

scan_loop(rows, files, orders, faults, verbose, failing, i, counts) ==
    IF i > Len(files) THEN [counts |-> counts, exc |-> "none"]
    ELSE
        scan_next(rows, files, orders, faults, verbose, failing, i,
                  scan_file(counts, files[i],
                            validate(rows, files[i], orders[i], faults[i]),
                            verbose, failing))

\* lines 173-182 of scan_dir, r being what the loop gave: the summary
\* written with console.print, close and the exit status
scan_dir_result(s, r, failing) ==
    IF r.exc # "none" THEN
        [command |-> CommandResult(TRUE, r.exc, 1, FALSE, s.rows, s.committed),
         looped |-> TRUE, counts |-> r.counts]
    ELSE IF "console.print" \in failing THEN
        [command |-> CommandResult(TRUE, "Exception", 1, FALSE, s.rows, s.committed),
         looped |-> TRUE, counts |-> r.counts]
    ELSE
        [command |->
            CommandResult(TRUE, "none",
                          IF r.counts.invalid_count = 0 /\ r.counts.error_count = 0
                          THEN 0 ELSE 1,
                          TRUE, s.rows, s.committed),
         looped |-> TRUE, counts |-> r.counts]

\* scan_dir(directory, recursive, verbose, extensions) after the set-up s,
\* on the files selected from the listing: display_info, the loop, the
\* summary, close and the exit status; an exception that leaves the try
\* block ends the command with status 1 in one of the handlers of lines
\* 184-190
scan_dir_body(s, files, orders, faults, verbose, failing) ==
    IF s.exc # "none" THEN
        [command |-> CommandResult(TRUE, s.exc, 1, FALSE, s.rows, s.committed),
         looped |-> FALSE, counts |-> NoCounts]
    ELSE IF "display_info" \in failing THEN
        [command |-> CommandResult(TRUE, "Exception", 1, FALSE, s.rows, s.committed),
         looped |-> FALSE, counts |-> NoCounts]
    ELSE IF files = <<>> THEN
        [command |-> CommandResult(TRUE, "none", 0, TRUE, s.rows, s.committed),
         looped |-> FALSE, counts |-> NoCounts]
    ELSE
        scan_dir_result(s, scan_loop(s.rows, files, orders, faults, verbose,
                                     failing, 1, NoCounts),
                        failing)

\* lines 217-224 of list_signatures: the extensions of the categories
\* Documents, Images, Archives, Executables, Media and Databases
Categories ==
    << { <<"p","d","f">>, <<"d","o","c","x">>, <<"x","l","s","x">>,
         <<"p","p","t","x">>, <<"x","m","l">> },
       { <<"j","p","g">>, <<"j","p","e","g">>, <<"p","n","g">>,
         <<"g","i","f">>, <<"b","m","p">>, <<"i","c","o">>, <<"w","e","b","p">>
         },
       { <<"z","i","p">>, <<"r","a","r">>, <<"7","z">>, <<"t","a","r">>,
         <<"g","z">> },
       { <<"e","x","e">>, <<"d","l","l">>, <<"e","l","f">> },
       { <<"m","p","3">>, <<"m","p","4">>, <<"a","v","i">>, <<"m","k","v">>,
         <<"w","a","v">>, <<"f","l","a","c">> },
       { <<"s","q","l","i","t","e">> } >>

\* lines 226-243: the extensions in the order in which they are shown, the
\* categories from the index i on, each sorted, then the extensions of no
\* category, sorted
RECURSIVE display_order(_, _)
display_order(extensions, i) ==
    LET all == { extensions[k] : k \in 1..Len(extensions) }
    IN  IF i > Len(Categories) THEN
            SortStrings({ ext \in all :
                            \A j \in 1..Len(Categories) : ext \notin Categories[j] })
        ELSE
            SortStrings({ ext \in all : ext \in Categories[i] })
                \o display_order(extensions, i + 1)

\* lines 229-232 and 241-243: get_signatures for the shown extensions from
\* the index i on, faults[i] telling whether the store fails on lookup i;
\* a line of the listing is the extension and the number of its records
RECURSIVE list_loop(_, _, _, _, _)
list_loop(rows, shown, faults, i, listed) ==
    IF i > Len(shown) THEN [exc |-> "none", listed |-> listed]
    ELSE
        LET sigs == get_signatures(rows, shown[i],
                                   RowsOf(rows, normalize_extension(shown[i])),
                                   faults[i])
        IN  IF sigs.exc # "none" THEN [exc |-> sigs.exc, listed |-> listed]
            ELSE list_loop(rows, shown, faults, i + 1,
                           Append(listed, <<shown[i], Len(sigs.result)>>))

\* list_signatures() after the set-up s: the extensions, the number of
\* records of each, close and exit status 0; every exception ends the command
\* with status 1 in one of the handlers of lines 250-256, the store left open
list_signatures_body(s, ext_fault, faults, failing) ==
    IF s.exc # "none" THEN
        [command |-> CommandResult(TRUE, s.exc, 1, FALSE, s.rows, s.committed),
         listed |-> <<>>]
    ELSE
        LET extensions == get_all_extensions(s.rows, ext_fault)
        IN  IF extensions.exc # "none" THEN
                [command |-> CommandResult(TRUE, extensions.exc, 1, FALSE,
                                           s.rows, s.committed),
                 listed |-> <<>>]
            ELSE IF extensions.result = <<>> THEN
                IF "display_info" \in failing THEN
                    [command |-> CommandResult(TRUE, "Exception", 1, FALSE,
                                               s.rows, s.committed),
                     listed |-> <<>>]
                ELSE
                    [command |-> CommandResult(TRUE, "none", 0, TRUE,
                                               s.rows, s.committed),
                     listed |-> <<>>]
            ELSE IF "console.print" \in failing THEN
                [command |-> CommandResult(TRUE, "Exception", 1, FALSE,
                                           s.rows, s.committed),
                 listed |-> <<>>]
            ELSE
                LET r == list_loop(s.rows, display_order(extensions.result, 1),
                                   faults, 1, <<>>)
                IN  IF r.exc # "none" THEN
                        [command |-> CommandResult(TRUE, r.exc, 1, FALSE,
                                                   s.rows, s.committed),
                         listed |-> r.listed]
                    ELSE
                        [command |-> CommandResult(TRUE, "none", 0, TRUE,
                                                   s.rows, s.committed),
                         listed |-> r.listed]

\* status(verbose): the store is opened and counted, with --verbose and a
\* record in the store the extensions are read, then close and exit status 0;
\* every exception ends the command with status 1 in the handler of lines
\* 298-300, the store left open.  The command never loads the default
\* document.  Its first console.print comes before the count.
status_body(rows, n, verbose, count_fault, ext_fault, failing) ==
    LET sig_count == signature_count(rows, count_fault)
    IN  IF "console.print" \in failing THEN
            [command |-> CommandResult(TRUE, "Exception", 1, FALSE, rows, n),
             sig_count |-> 0, extensions |-> <<>>]
        ELSE IF sig_count.exc # "none" THEN
            [command |-> CommandResult(TRUE, sig_count.exc, 1, FALSE, rows, n),
             sig_count |-> 0, extensions |-> <<>>]
        ELSE IF verbose /\ sig_count.result > 0 THEN
            LET extensions == get_all_extensions(rows, ext_fault)
            IN  IF extensions.exc # "none" THEN
                    [command |-> CommandResult(TRUE, extensions.exc, 1, FALSE, rows, n),
                     sig_count |-> sig_count.result, extensions |-> <<>>]
                ELSE
                    [command |-> CommandResult(TRUE, "none", 0, TRUE, rows, n),
                     sig_count |-> sig_count.result,
                     extensions |-> extensions.result]
        ELSE
            [command |-> CommandResult(TRUE, "none", 0, TRUE, rows, n),
             sig_count |-> sig_count.result, extensions |-> <<>>]

(***************************************************************************)
(* Inputs of the operations.                                               *)
(***************************************************************************)
PDF == <<"p","d","f">>

\* spellings of extensions handed to add_signature and get_signatures
ExtInputs == { PDF, <<".","P","D","F">>, DOCX, <<".">> }

\* extensions handed to get_reader
ReaderInputs ==
    { PDF, <<"P","d","F">>, DOCX, <<"D","o","c","X">>, XLSX, <<"X","L","S","X">>,
      PPTX, <<"P","p","t","x">>, ZIP, <<"Z","I","P">>, <<"t","a","r">>, <<"7","Z">>,
      <<"x","y","z">>, <<"z","i","p","x">>, <<"d","o","c">>, <<>> }

\* spellings of patterns handed to add_signature: 2A50 in three spellings, and
\* patterns that are empty, odd or not hexadecimal
PatInputs ==
    { <<"2","A","5","0">>, <<"2","a"," ","5","0">>, <<"2","a","\t","5","0">>,
      <<" ">>, <<"2","A","5">>, <<"2","G">> }

\* offsets handed to add_signature (Null is Python's None)
OffsetInputs == {Offset(0), Offset(-1), Null}

\* the zip local-file-header signature, as hex
PK == <<"5","0","4","B","0","3","0","4">>

Entry(extension, magic_bytes, has_offset, offset) ==
    [extension |-> extension, magic_bytes |-> magic_bytes, has_offset |-> has_offset,
     offset |-> offset]

Document(exists, parses, entries) ==
    [exists |-> exists, parses |-> parses, entries |-> entries]

\* the documents handed to load_signatures: one pdf entry; the same entry in
\* another spelling and without the offset key, followed by a docx entry; a
\* pdf entry with "offset": null; an entry with a dot for extension; an
\* entry whose pattern is not hexadecimal; no entry; a file that is not
\* JSON; a file that does not exist
Documents ==
    { Document(TRUE, TRUE, << Entry(PDF, <<"2","A","5","0">>, TRUE, Offset(0)) >>),
      Document(TRUE, TRUE, << Entry(<<".","P","D","F">>, <<"2","a"," ","5","0">>, FALSE, Offset(0)),
                              Entry(DOCX, PK, TRUE, Offset(0)) >>),
      Document(TRUE, TRUE, << Entry(PDF, <<"2","A","5","0">>, TRUE, Null) >>),
      Document(TRUE, TRUE, << Entry(<<".">>, <<"2","A","5","0">>, TRUE, Offset(0)),
                              Entry(PDF, <<"F","F","D","8">>, TRUE, Offset(0)) >>),
      Document(TRUE, TRUE, << Entry(PDF, <<"2","G">>, TRUE, Offset(0)) >>),
      Document(TRUE, TRUE, <<>>),
      Document(TRUE, FALSE, <<>>),
      Document(FALSE, FALSE, <<>>) }

\* lengths and offsets handed to read_signature
ReadLengths == {-2, -1, 0, 1, 2, 3, 8}

ReadOffsets == { Offset(n) : n \in {-1, 0, 1, 2, 3, 4} }

\* the registrations made before files are validated
Registrations ==
    { <<PDF, <<"2","5","5","0">>, Offset(0)>>, <<PDF, <<"2","5","5","0">>, Offset(1)>>,
      <<PDF, <<"F","F","D","8">>, Offset(0)>>, <<PDF, <<"2","5","\t","5","0">>, Offset(0)>>,
      <<PDF, <<"2","5","5","0">>, Offset(-1)>>, <<PDF, <<"F","F","D","8">>, Null>>,
      <<PDF, <<"\t">>, Offset(0)>>,
      <<DOCX, PK, Offset(0)>>, <<DOCX, PK, Offset(-1)>>,
      <<DOCX, <<"5","0","4","B",VT,"0","3","0","4">>, Offset(0)>>, <<ZIP, PK, Offset(0)>> }

File(name, exists, is_file, readable, size, head, zip, names) ==
    [name |-> name, exists |-> exists, is_file |-> is_file, readable |-> readable,
     size |-> size, head |-> head, zip |-> zip, names |-> names]

DocxNames == {"[Content_Types].xml", "word/document.xml", "docProps/app.xml"}

\* the files of the model's file system
Files ==
    { \* a.pdf: 25 50 44
      File(<<"a",".","p","d","f">>, TRUE, TRUE, TRUE, 3, <<37, 80, 68>>, "no", {}),
      \* B.PDF: 00 25 50 (the pattern at offset 1)
      File(<<"B",".","P","D","F">>, TRUE, TRUE, TRUE, 3, <<0, 37, 80>>, "no", {}),
      \* j.pdf: FF D8 and nothing else
      File(<<"j",".","p","d","f">>, TRUE, TRUE, TRUE, 2, <<255, 216>>, "no", {}),
      \* e.pdf: an empty file
      File(<<"e",".","p","d","f">>, TRUE, TRUE, TRUE, 0, <<>>, "no", {}),
      \* gone.pdf does not exist; d.pdf is a directory; README has no extension
      File(<<"g","o","n","e",".","p","d","f">>, FALSE, FALSE, FALSE, 0, <<>>, "no", {}),
      File(<<"d",".","p","d","f">>, TRUE, FALSE, TRUE, 0, <<>>, "no", {}),
      File(<<"R","E","A","D","M","E">>, TRUE, TRUE, TRUE, 2, <<37, 80>>, "no", {}),
      \* d.x/README: no extension either, in a directory whose name has a dot
      File(<<"d",".","x","/","R","E","A","D","M","E">>, TRUE, TRUE, TRUE, 2, <<37, 80>>,
           "no", {}),
      File(<<"g","o","n","e">>, FALSE, FALSE, FALSE, 0, <<>>, "no", {}),
      \* u.pdf exists but cannot be opened
      File(<<"u",".","p","d","f">>, TRUE, TRUE, FALSE, 2, <<37, 80>>, "no", {}),
      \* big.pdf and big are one byte over the maximum, max.pdf is exactly at it
      File(<<"b","i","g",".","p","d","f">>, TRUE, TRUE, TRUE, MAX_FILE_SIZE + 1,
           <<37, 80>>, "no", {}),
      File(<<"b","i","g">>, TRUE, TRUE, TRUE, MAX_FILE_SIZE + 1, <<37, 80>>, "no", {}),
      File(<<"m","a","x",".","p","d","f">>, TRUE, TRUE, TRUE, MAX_FILE_SIZE,
           <<37, 80>>, "no", {}),
      \* x.xyz: an extension no signature is registered for
      File(<<"x",".","x","y","z">>, TRUE, TRUE, TRUE, 2, <<37, 80>>, "no", {}),
      \* ok.docx: a container with the required paths; fake.docx: a container
      \* without them; raw.docx: the four bytes 50 4B 03 04 and no container;
      \* bad.docx: a corrupt container
      File(<<"o","k",".","d","o","c","x">>, TRUE, TRUE, TRUE, 200, <<80, 75, 3, 4>>,
           "ok", DocxNames),
      File(<<"f","a","k","e",".","d","o","c","x">>, TRUE, TRUE, TRUE, 200,
           <<80, 75, 3, 4>>, "ok", {"[Content_Types].xml", "random.txt"}),
      File(<<"r","a","w",".","d","o","c","x">>, TRUE, TRUE, TRUE, 4, <<80, 75, 3, 4>>,
           "no", {}),
      File(<<"b","a","d",".","d","o","c","x">>, TRUE, TRUE, TRUE, 200,
           <<80, 75, 3, 4>>, "bad", {}),
      \* ok.zip: a container; raw.zip: not a container
      File(<<"o","k",".","z","i","p">>, TRUE, TRUE, TRUE, 200, <<80, 75, 3, 4>>,
           "ok", {"random.txt"}),
      File(<<"r","a","w",".","z","i","p">>, TRUE, TRUE, TRUE, 4, <<80, 75, 3, 4>>,
           "no", {}) }

\* the files handed to validate_structure: the files above; ok.xlsx, a
\* container with the paths of a workbook; half.pptx, a container with the
\* presentation and without the content-type descriptor
StructFiles ==
    Files \cup
    { File(<<"o","k",".","x","l","s","x">>, TRUE, TRUE, TRUE, 200, <<80, 75, 3, 4>>,
           "ok", {"[Content_Types].xml", "xl/workbook.xml"}),
      File(<<"h","a","l","f",".","p","p","t","x">>, TRUE, TRUE, TRUE, 200,
           <<80, 75, 3, 4>>, "ok", {"ppt/presentation.xml"}) }

\* the extensions handed to validate_structure
StructExtensions ==
    { DOCX, <<"D","O","C","X">>, XLSX, PPTX, ZIP, <<"p","d","f">>, <<>> }

\* the files handed to get_file_hash: the empty e.pdf; a.pdf (25 50 44); c.bin
\* with the bytes of a.pdf; z.bin with the bytes of a.pdf and a zero byte;
\* k1.bin, k2.bin and k3.bin of one chunk, one chunk and a byte, and two
\* chunks and a byte (25 50 44 and zero bytes); gone.pdf, which does
\* not exist, the directory d.pdf and u.pdf, which cannot be opened
HashFiles ==
    { File(<<"e",".","p","d","f">>, TRUE, TRUE, TRUE, 0, <<>>, "no", {}),
      File(<<"a",".","p","d","f">>, TRUE, TRUE, TRUE, 3, <<37, 80, 68>>, "no", {}),
      File(<<"c",".","b","i","n">>, TRUE, TRUE, TRUE, 3, <<37, 80, 68>>, "no", {}),
      File(<<"z",".","b","i","n">>, TRUE, TRUE, TRUE, 4, <<37, 80, 68, 0>>, "no", {}),
      File(<<"k","1",".","b","i","n">>, TRUE, TRUE, TRUE, ChunkSize,
           <<37, 80, 68>>, "no", {}),
      File(<<"k","2",".","b","i","n">>, TRUE, TRUE, TRUE, ChunkSize + 1,
           <<37, 80, 68>>, "no", {}),
      File(<<"k","3",".","b","i","n">>, TRUE, TRUE, TRUE, 2 * ChunkSize + 1,
           <<37, 80, 68>>, "no", {}),
      File(<<"g","o","n","e",".","p","d","f">>, FALSE, FALSE, FALSE, 0, <<>>, "no", {}),
      File(<<"d",".","p","d","f">>, TRUE, FALSE, TRUE, 0, <<>>, "no", {}),
      File(<<"u",".","p","d","f">>, TRUE, TRUE, FALSE, 2, <<37, 80>>, "no", {}) }

\* the registrations made before the commands run, the default documents
\* (one record for pdf; not JSON; none at any of the locations), the files
\* named on the command line and the listings of the directory
CliRegistrations ==
    { <<PDF, <<"2","5","5","0">>, Offset(0)>>, <<PDF, <<"F","F","D","8">>, Offset(0)>>, <<DOCX, PK, Offset(0)>> }

CliDocuments ==
    { Document(TRUE, TRUE, << Entry(PDF, <<"2","5","5","0">>, TRUE, Offset(0)) >>),
      Document(TRUE, FALSE, <<>>),
      Document(FALSE, FALSE, <<>>) }

CliFiles == { f \in Files : f.name \in { <<"a",".","p","d","f">>,
                                        <<"j",".","p","d","f">>,
                                        <<"g","o","n","e",".","p","d","f">>,
                                        <<"d",".","p","d","f">>,
                                        <<"u",".","p","d","f">>,
                                        <<"R","E","A","D","M","E">>,
                                        <<"f","a","k","e",".","d","o","c","x">> } }

MaxListing == 2

\* what a directory can hold: a.pdf, j.pdf, u.pdf, which cannot be opened,
\* README and the directory d.pdf
DirEntries == { f \in CliFiles : f.exists /\ f.zip = "no" }

\* the entries of a directory, each path once, in the order of the glob
Listings ==
    { l \in UNION { [1..k -> DirEntries] : k \in 0..MaxListing } :
        \A i, j \in 1..Len(l) : i # j => l[i] # l[j] }

ExtensionFilters == { {}, {<<".","P","D","F">>, DOCX}, {ZIP} }

\* the consoles of a command: whether --verbose is given, and the display
\* functions that raise during the run (a console that cannot write what
\* they print): none, one of them, or the display of a result and
\* display_error together
Consoles ==
    { [verbose |-> FALSE, failing |-> {}],
      [verbose |-> TRUE, failing |-> {}],
      [verbose |-> TRUE, failing |-> {"display_info"}],
      [verbose |-> FALSE, failing |-> {"display_validation_result"}],
      [verbose |-> TRUE, failing |-> {"display_validation_result"}],
      [verbose |-> TRUE, failing |-> {"display_error"}],
      [verbose |-> TRUE, failing |-> {"display_validation_result", "display_error"}],
      [verbose |-> FALSE, failing |-> {"display_file_hash"}],
      [verbose |-> FALSE, failing |-> {"console.print"}] }

\* the registrations, the lookups and the files in the life of a store
StoreRegistrations ==
    { <<PDF, <<"2","A","5","0">>, Offset(0)>>, <<<<".","P","D","F">>, <<"2","a"," ","5","0">>, Offset(0)>>,
      <<PDF, <<"F","F","D","8">>, Offset(0)>>, <<DOCX, PK, Offset(0)>>, <<PDF, <<"2","G">>, Offset(0)>> }

StoreExts == { PDF, <<".","P","D","F">>, DOCX }

StoreFiles == { f \in Files : f.name \in { <<"a",".","p","d","f">>,
                                          <<"o","k",".","d","o","c","x">>,
                                          <<"g","o","n","e",".","p","d","f">>,
                                          <<"d",".","p","d","f">> } }

(***************************************************************************)
(* The operations.  The program is single-threaded and synchronous: a call *)
(* returns (or raises) before the next one is made.  last is the call that *)
(* has just ended, with its arguments and its result, until the caller has *)
(* taken the result.                                                       *)
(***************************************************************************)
Idle == [op |-> "idle"]

\* Database(db_path) on a location that holds no database yet
Init ==
    /\ store = <<>>
    /\ committed = 0
    /\ conn = "open"
    /\ last = Idle

AddSignature(extension, magic_bytes, offset, fault) ==
    /\ last = Idle
    /\ IF conn = "open" THEN
           LET r == add_signature(store, committed, extension, magic_bytes, offset, fault)
           IN  /\ Len(r.rows) <= MaxRecords
               /\ store' = r.rows
               /\ committed' = IF r.committed THEN Len(r.rows) ELSE committed
               /\ last' = [op |-> "add_signature", extension |-> extension,
                           magic_bytes |-> magic_bytes, offset |-> offset,
                           fault |-> fault, exc |-> r.exc, msg |-> r.msg,
                           before |-> store]
       ELSE
           LET r == add_signature_closed(extension, magic_bytes)
           IN  /\ fault = "none"
               /\ last' = [op |-> "add_signature", extension |-> extension,
                           magic_bytes |-> magic_bytes, offset |-> offset,
                           fault |-> fault, exc |-> r.exc, msg |-> r.msg,
                           before |-> store]
               /\ UNCHANGED <<store, committed>>
    /\ UNCHANGED conn

GetSignatures(extension, fault) ==
    /\ last = Idle
    /\ IF conn = "open" THEN
           \E order \in Orders(RowsOf(store, normalize_extension(extension))) :
               LET r == get_signatures(store, extension, order, fault)
               IN  last' = [op |-> "get_signatures", extension |-> extension,
                            fault |-> fault, exc |-> r.exc, msg |-> r.msg,
                            result |-> r.result]
       ELSE
           /\ ~fault
           /\ last' = [op |-> "get_signatures", extension |-> extension,
                       fault |-> fault, exc |-> closed_call.exc,
                       msg |-> closed_call.msg, result |-> <<>>]
    /\ UNCHANGED <<store, committed, conn>>

GetAllExtensions(fault) ==
    /\ last = Idle
    /\ IF conn = "open" THEN
           LET r == get_all_extensions(store, fault)
           IN  last' = [op |-> "get_all_extensions", fault |-> fault, exc |-> r.exc,
                        msg |-> r.msg, result |-> r.result]
       ELSE
           /\ ~fault
           /\ last' = [op |-> "get_all_extensions", fault |-> fault,
                       exc |-> closed_call.exc, msg |-> closed_call.msg,
                       result |-> <<>>]
    /\ UNCHANGED <<store, committed, conn>>

SignatureCount(fault) ==
    /\ last = Idle
    /\ IF conn = "open" THEN
           LET r == signature_count(store, fault)
           IN  last' = [op |-> "signature_count", fault |-> fault, exc |-> r.exc,
                        msg |-> r.msg, result |-> r.result]
       ELSE
           /\ ~fault
           /\ last' = [op |-> "signature_count", fault |-> fault,
                       exc |-> closed_call.exc, msg |-> closed_call.msg, result |-> 0]
    /\ UNCHANGED <<store, committed, conn>>

\* Database.close()
Close ==
    LET r == close(conn, store, committed)
    IN  /\ last = Idle
        /\ store' = r.rows
        /\ conn' = r.conn
        /\ last' = [op |-> "close", exc |-> r.exc, before |-> conn]
        /\ UNCHANGED committed

\* FileValidator.close(): self.database.close()
ValidatorClose ==
    LET r == close(conn, store, committed)
    IN  /\ last = Idle
        /\ store' = r.rows
        /\ conn' = r.conn
        /\ last' = [op |-> "validator_close", exc |-> r.exc, before |-> conn]
        /\ UNCHANGED committed

\* the exceptions with which the block of a with statement ends ("none": it
\* ends normally)
BlockExceptions == {"none", "ValueError", "ValidationError"}

\* the with block of a Database is left, normally or with the exception
\* exc_type: Database.__exit__
DatabaseExit(exc_type) ==
    LET r == context_exit(conn, store, committed, exc_type)
    IN  /\ last = Idle
        /\ store' = r.rows
        /\ conn' = r.conn
        /\ last' = [op |-> "database_exit", exc_type |-> exc_type, exc |-> r.exc,
                    suppress |-> r.suppress, before |-> conn]
        /\ UNCHANGED committed

\* the with block of a FileValidator is left: FileValidator.__exit__
ValidatorExit(exc_type) ==
    LET r == context_exit(conn, store, committed, exc_type)
    IN  /\ last = Idle
        /\ store' = r.rows
        /\ conn' = r.conn
        /\ last' = [op |-> "validator_exit", exc_type |-> exc_type, exc |-> r.exc,
                    suppress |-> r.suppress, before |-> conn]
        /\ UNCHANGED committed

\* Database(db_path) once more, on the location of the store that was closed:
\* the new connection sees the rows of the database file
Open ==
    /\ last = Idle
    /\ conn = "closed"
    /\ conn' = "open"
    /\ last' = [op |-> "open", rows |-> store]
    /\ UNCHANGED <<store, committed>>

Validate(f, fault) ==
    /\ last = Idle
    /\ IF conn = "open" THEN
           \E order \in Orders(RowsOf(store, file_extension(f))) :
               last' = [op |-> "validate", file |-> f, fault |-> fault,
                        order |-> order, out |-> validate(store, f, order, fault)]
       ELSE
           /\ ~fault
           /\ last' = [op |-> "validate", file |-> f, fault |-> fault,
                       order |-> <<>>, out |-> validate_closed(f)]
    /\ UNCHANGED <<store, committed, conn>>

GetFileHash(f) ==
    /\ last = Idle
    /\ \E r \in {get_file_hash(f)} :
          last' = [op |-> "get_file_hash", file |-> f, exc |-> r.exc,
                   digest |-> r.digest]
    /\ UNCHANGED <<store, committed, conn>>

\* get_file_hash up to the end of its read loop (lines 220-225): the chunks
\* have gone to the hash, or the file could not be opened
GetFileHashRead(f) ==
    /\ last = Idle
    /\ \E r \in {hash_input(f)} :
          last' = [op |-> "get_file_hash", file |-> f, exc |-> r.exc,
                   pc |-> IF r.exc = "none" THEN "read" ELSE "done",
                   chunks |-> r.chunks, message |-> r.message, digest |-> <<>>]
    /\ UNCHANGED <<store, committed, conn>>

\* get_file_hash from the end of its read loop on (lines 227-229): hexdigest()
GetFileHashDigest ==
    /\ last.op = "get_file_hash"
    /\ last.pc = "read"
    /\ Len(last.message) <= MaxHashed
    /\ last' = [last EXCEPT !.pc = "done", !.digest = sha256_hexdigest(last.message)]
    /\ UNCHANGED <<store, committed, conn>>

GetReader(extension) ==
    /\ last = Idle
    /\ last' = [op |-> "get_reader", extension |-> extension,
                result |-> get_reader(extension)]
    /\ UNCHANGED <<store, committed, conn>>

\* <reader>.read_signature(file_path, length, offset) called on a reader
ReadSignature(reader, f, length, offset) ==
    /\ last = Idle
    /\ last' = [op |-> "read_signature", reader |-> reader, file |-> f,
                length |-> length, offset |-> offset,
                exc |-> read_signature(reader, f, length, offset).exc,
                bytes |-> read_signature(reader, f, length, offset).bytes]
    /\ UNCHANGED <<store, committed, conn>>

\* <reader>.validate_structure(file_path, extension) called on a reader
ValidateStructure(reader, f, extension) ==
    /\ last = Idle
    /\ \E r \in {validate_structure(reader, f, extension)} :
          last' = [op |-> "validate_structure", reader |-> reader, file |-> f,
                   extension |-> extension, exc |-> r.exc, value |-> r.value]
    /\ UNCHANGED <<store, committed, conn>>

\* DataLoader.load_signatures on the store, the add_signature call of entry i
\* meeting the fault faults[i]
LoadSignatures(doc, faults) ==
    LET r == load_signatures(store, committed, conn, doc, faults)
    IN  /\ last = Idle
        /\ Len(r.rows) <= MaxRecords
        /\ store' = r.rows
        /\ committed' = r.committed
        /\ last' = [op |-> "load_signatures", doc |-> doc, faults |-> faults,
                    exc |-> r.exc, loaded |-> r.loaded, before |-> store]
        /\ UNCHANGED conn

\* the command scan, run in a new process while no other holds the store
Scan(f, verbose, hash, doc, count_fault, fault, hash_fault, failing) ==
    /\ last = Idle
    /\ conn = "closed"
    /\ IF ~click_path(f) THEN
           \E r \in {scan_usage_error(store, committed)} :
               /\ store' = r.rows
               /\ committed' = r.committed
               /\ conn' = r.conn
               /\ doc = Document(FALSE, FALSE, <<>>) /\ ~hash /\ ~count_fault
               /\ ~fault /\ ~hash_fault /\ ~verbose /\ failing = {}
               /\ last' = [op |-> "scan", file |-> f, verbose |-> verbose,
                           hash |-> hash, failing |-> failing,
                           created |-> r.created, exc |-> r.exc,
                           exit_code |-> r.exit_code, closed |-> r.closed]
       ELSE IF verbose /\ "display_info" \in failing THEN
           \E r \in {scan_not_created(store, committed)} :
               /\ store' = r.rows
               /\ committed' = r.committed
               /\ conn' = r.conn
               /\ doc = Document(FALSE, FALSE, <<>>) /\ ~hash /\ ~count_fault
               /\ ~fault /\ ~hash_fault
               /\ last' = [op |-> "scan", file |-> f, verbose |-> verbose,
                           hash |-> hash, failing |-> failing,
                           created |-> r.created, exc |-> r.exc,
                           exit_code |-> r.exit_code, closed |-> r.closed]
       ELSE
           \E faults \in [1..Len(doc.entries) -> {"none"}] :
           \E s \in {command_setup(store, committed, doc, faults, count_fault,
                                   failing)} :
           \E order \in Orders(RowsOf(s.rows, file_extension(f))) :
           \E r \in {scan_body(s, f, hash, order, fault, hash_fault, failing)} :
               /\ Len(r.rows) <= MaxRecords
               /\ store' = r.rows
               /\ committed' = r.committed
               /\ conn' = r.conn
               /\ last' = [op |-> "scan", file |-> f, verbose |-> verbose,
                           hash |-> hash, failing |-> failing,
                           created |-> r.created, exc |-> r.exc,
                           exit_code |-> r.exit_code, closed |-> r.closed]

\* the command scan_dir on a directory with the given listing
ScanDir(listing, extensions, verbose, doc, count_fault, failing) ==
    /\ last = Idle
    /\ conn = "closed"
    /\ \E faults \in [1..Len(doc.entries) -> {"none"}] :
       \E s \in {command_setup(store, committed, doc, faults, count_fault, failing)} :
       \E files \in {select_files(listing, extensions)} :
       \E lookup_faults \in [1..Len(files) -> BOOLEAN] :
       \E orders \in { os \in [1..Len(files) ->
                                 UNION { Orders(RowsOf(s.rows, file_extension(files[i]))) :
                                           i \in 1..Len(files) }] :
                          \A i \in 1..Len(files) :
                              os[i] \in Orders(RowsOf(s.rows, file_extension(files[i]))) } :
       \E r \in {scan_dir_body(s, files, orders, lookup_faults, verbose, failing)} :
           /\ Len(r.command.rows) <= MaxRecords
           /\ store' = r.command.rows
           /\ committed' = r.command.committed
           /\ conn' = r.command.conn
           /\ last' = [op |-> "scan_dir", listing |-> listing,
                       extensions |-> extensions, verbose |-> verbose,
                       failing |-> failing, selected |-> files,
                       created |-> r.command.created, exc |-> r.command.exc,
                       exit_code |-> r.command.exit_code,
                       closed |-> r.command.closed, looped |-> r.looped,
                       counts |-> r.counts]

\* the command list-signatures
ListSignatures(doc, count_fault, ext_fault, failing) ==
    /\ last = Idle
    /\ conn = "closed"
    /\ \E faults \in [1..Len(doc.entries) -> {"none"}] :
       \E s \in {command_setup(store, committed, doc, faults, count_fault, failing)} :
       \E lookup_faults \in
              [1..Cardinality({ s.rows[i].extension : i \in 1..Len(s.rows) })
                  -> BOOLEAN] :
       \E r \in {list_signatures_body(s, ext_fault, lookup_faults, failing)} :
           /\ Len(r.command.rows) <= MaxRecords
           /\ store' = r.command.rows
           /\ committed' = r.command.committed
           /\ conn' = r.command.conn
           /\ last' = [op |-> "list_signatures", failing |-> failing,
                       created |-> r.command.created,
                       exc |-> r.command.exc, exit_code |-> r.command.exit_code,
                       closed |-> r.command.closed, listed |-> r.listed,
                       before |-> store]

\* the command status
Status(verbose, count_fault, ext_fault, failing) ==
    /\ last = Idle
    /\ conn = "closed"
    /\ \E r \in {status_body(store, committed, verbose, count_fault, ext_fault,
                            failing)} :
           /\ store' = r.command.rows
           /\ committed' = r.command.committed
           /\ conn' = r.command.conn
           /\ last' = [op |-> "status", verbose |-> verbose, failing |-> failing,
                       created |-> r.command.created, exc |-> r.command.exc,
                       exit_code |-> r.command.exit_code,
                       closed |-> r.command.closed, sig_count |-> r.sig_count,
                       extensions |-> r.extensions]

\* the names of the commands
Commands == {"scan", "scan_dir", "list_signatures", "status"}

\* sys.exit: the process of the command ends, and with it a connection that
\* was left open, whose uncommitted rows are lost
Exit ==
    /\ last # Idle
    /\ last.op \in Commands
    /\ conn' = "closed"
    /\ store' = SubSeq(store, 1, committed)
    /\ last' = Idle
    /\ UNCHANGED committed

\* the caller of a method of the library takes its result
LibraryReturn ==
    /\ last # Idle
    /\ last.op \notin Commands
    /\ last' = Idle
    /\ UNCHANGED <<store, committed, conn>>

\* the caller takes the result of the call
Return ==
    /\ last # Idle
    /\ last' = Idle
    /\ UNCHANGED <<store, committed, conn>>

\* the store and the reader factory under every spelling of the arguments
\* (failing commits are left to the life of a store below)
Next ==
    \/ \E e \in ExtInputs, p \in PatInputs, o \in OffsetInputs,
          fault \in {"none", "execute"} :
          AddSignature(e, p, o, fault)
    \/ \E e \in ExtInputs, fault \in BOOLEAN : GetSignatures(e, fault)
    \/ \E e \in ReaderInputs : GetReader(e)
    \/ Return

Spec == Init /\ [][Next]_vars

\* the validator over a store filled by registrations
NextValidate ==
    \/ \E r \in Registrations : AddSignature(r[1], r[2], r[3], "none")
    \/ \E f \in Files, fault \in BOOLEAN : Validate(f, fault)
    \/ Return

SpecValidate == Init /\ [][NextValidate]_vars

\* the life of a store: registrations under every fault of the backing store,
\* the queries, the validator, close and a new store on the same location
NextStore ==
    \/ \E r \in StoreRegistrations, fault \in AddFaults :
          AddSignature(r[1], r[2], r[3], fault)
    \/ \E e \in StoreExts, fault \in BOOLEAN : GetSignatures(e, fault)
    \/ \E fault \in BOOLEAN : GetAllExtensions(fault)
    \/ \E fault \in BOOLEAN : SignatureCount(fault)
    \/ \E f \in StoreFiles : Validate(f, FALSE)
    \/ \E f \in { g \in StoreFiles : g.size <= MaxHashed } : GetFileHash(f)
    \/ Close
    \/ ValidatorClose
    \/ \E exc_type \in BlockExceptions : DatabaseExit(exc_type)
    \/ \E exc_type \in BlockExceptions : ValidatorExit(exc_type)
    \/ Open
    \/ Return

SpecStore == Init /\ [][NextStore]_vars

\* the bulk loader on a store that single registrations have filled
NextLoad ==
    \/ \E r \in StoreRegistrations : AddSignature(r[1], r[2], r[3], "none")
    \/ \E doc \in Documents :
          \E faults \in [1..Len(doc.entries) -> AddFaults] : LoadSignatures(doc, faults)
    \/ \E fault \in BOOLEAN : SignatureCount(fault)
    \/ Close
    \/ Return

SpecLoad == Init /\ [][NextLoad]_vars

\* the reader strategies and the digest of a file, called one by one
NextReaders ==
    \/ \E i \in 1..Len(Readers), f \in Files, length \in ReadLengths,
          offset \in ReadOffsets :
          /\ length = -1 => f.size <= MaxRead
          /\ ReadSignature(Readers[i], f, length, offset)
    \/ \E i \in 1..Len(Readers), f \in StructFiles, e \in StructExtensions :
          ValidateStructure(Readers[i], f, e)
    \/ \E e \in ReaderInputs : GetReader(e)
    \/ \E f \in HashFiles : GetFileHashRead(f)
    \/ GetFileHashDigest
    \/ Return

SpecReaders == Init /\ [][NextReaders]_vars

\* the commands over a store that registrations have filled and that was
\* closed before the command starts; a run meets a console that fails or a
\* store that fails, not both, and a console that fails is met without a
\* default document
NextCli ==
    \/ \E r \in CliRegistrations : AddSignature(r[1], r[2], r[3], "none")
    \/ Close
    \/ \E f \in CliFiles, console \in Consoles, hash \in BOOLEAN,
          doc \in CliDocuments, count_fault \in BOOLEAN, fault \in BOOLEAN,
          hash_fault \in BOOLEAN :
          /\ console.failing # {} =>
                (~count_fault /\ ~fault /\ ~hash_fault /\ ~doc.exists)
          /\ Scan(f, console.verbose, hash, doc, count_fault, fault, hash_fault,
                  console.failing)
    \/ \E listing \in Listings, extensions \in ExtensionFilters,
          console \in Consoles, doc \in CliDocuments, count_fault \in BOOLEAN :
          /\ console.failing # {} => (~count_fault /\ ~doc.exists)
          /\ ScanDir(listing, extensions, console.verbose, doc, count_fault,
                     console.failing)
    \/ \E doc \in CliDocuments, count_fault \in BOOLEAN, ext_fault \in BOOLEAN,
          console \in Consoles :
          /\ console.failing # {} => (~count_fault /\ ~ext_fault /\ ~doc.exists)
          /\ ListSignatures(doc, count_fault, ext_fault, console.failing)
    \/ \E verbose \in BOOLEAN, console \in Consoles, count_fault \in BOOLEAN,
          ext_fault \in BOOLEAN :
          Status(verbose, count_fault, ext_fault, console.failing)
    \/ Exit
    \/ LibraryReturn

SpecCli == Init /\ [][NextCli]_vars

(***************************************************************************)
(* Properties of the validator.                                            *)
(***************************************************************************)
\* the bytes decoded from hex stand in the file at [offset, offset + length)
MatchesAt(f, hex, offset) ==
    LET expected == fromhex(hex)
    IN  /\ expected.ok
        /\ offset # Null
        /\ IntOf(offset) >= 0
        /\ IntOf(offset) + Len(expected.bytes) <= f.size
        /\ \A k \in 1..Len(expected.bytes) :
              ByteAt(f, IntOf(offset) + k - 1) = expected.bytes[k]

\* the reader selected for the file answers true to validate_structure
StructureTrue(f) ==
    LET s == validate_structure(get_reader(file_extension(f)), f, file_extension(f))
    IN  s.exc = "none" /\ s.value

\* the store holds a record of the file's extension that matches the file
SomeRecordMatches(f) ==
    \E i \in 1..Len(store) :
        /\ store[i].extension = file_extension(f)
        /\ MatchesAt(f, store[i].magic_bytes, store[i].offset)

\* validate has ended without an exception
Returned == last.op = "validate" /\ last.out.exc = "none"

\* C1: validate returns (and then returns true) only if the store holds a record
\* of the file's lowercased extension whose decoded bytes are the file's bytes at
\* the record's offset and the selected reader's validate_structure was called
\* and answered true; in every other case it ends in an exception.
C1_Soundness ==
    Returned =>
        /\ last.out.value = TRUE
        /\ SomeRecordMatches(last.file)
        /\ last.out.structure_calls = 1
        /\ StructureTrue(last.file)

\* validate returned true for an office document, two records in the store
C1_Witness ==
    /\ Returned
    /\ last.out.value = TRUE
    /\ file_extension(last.file) = DOCX
    /\ Len(store) = 2

\* the validator was able to read the file and the store to answer
Usable(f, fault) == precheck(f) = "ok" /\ f.readable /\ ~fault

\* C3 (as claimed): whenever one record of the extension matches the file and
\* the structural check passes, validate returns true, wherever the record
\* stands in the order returned by the store.
C3_AnyRecordSuffices ==
    ( /\ last.op = "validate"
      /\ Usable(last.file, last.fault)
      /\ SomeRecordMatches(last.file)
      /\ StructureTrue(last.file) )
    => (last.out.exc = "none" /\ last.out.value = TRUE)

\* the file is an office document in a readable container that lacks one of
\* the paths its extension requires
LacksRequiredPath(f) ==
    /\ file_extension(f) \in OfficeTypes
    /\ f.zip = "ok"
    /\ \E required_file \in OFFICE_FILE_STRUCTURES(file_extension(f)) :
          required_file \notin f.names

\* C4 (as claimed): an office document whose bytes match a registered signature
\* but whose container lacks a required path makes validate raise
\* ValidationError.
C4_StructuralFailure ==
    ( /\ last.op = "validate"
      /\ Usable(last.file, last.fault)
      /\ SomeRecordMatches(last.file)
      /\ LacksRequiredPath(last.file) )
    => last.out.exc = "ValidationError"

\* the records of the order, as get_signatures hands them to validate
OrderPairs == [i \in 1..Len(last.order) |-> Pair(last.order[i])]

\* C5: validate compares the records in the order returned by the store; no
\* record before the last one compared matched; validate_structure is called
\* at most once, exactly when the last record compared matches, after which no
\* further record is compared or read and the answer decides the call: true
\* returns true, false raises ValidationError.
C5_ShortCircuit ==
    (last.op = "validate" /\ last.out.lookups = 1 /\ last.out.exc # "DatabaseError"
        /\ last.out.exc # "SignatureNotFoundError") =>
        LET out == last.out
            n == Len(out.compared)
        IN  /\ n <= Len(OrderPairs)
            /\ out.compared = SubSeq(OrderPairs, 1, n)
            /\ \A i \in 1..(n - 1) :
                  ~MatchesAt(last.file, out.compared[i][1], out.compared[i][2])
            /\ out.structure_calls \in {0, 1}
            /\ out.structure_calls = 1 <=>
                  (n >= 1 /\ last.file.readable
                     /\ MatchesAt(last.file, out.compared[n][1], out.compared[n][2]))
            /\ out.structure_calls = 1 =>
                  /\ Len(out.reads) = n
                  /\ StructureTrue(last.file) => (out.exc = "none" /\ out.value = TRUE)
                  /\ (~StructureTrue(last.file) /\ last.file.zip # "bad") =>
                        out.exc = "ValidationError"
            /\ (out.structure_calls = 0 /\ out.exc = "ValidationError") =>
                  n = Len(OrderPairs)

\* the first of two matching records passed the magic check and failed the
\* structural check: validate raised ValidationError without trying the second
C5_Witness ==
    /\ last.op = "validate"
    /\ Len(last.order) = 2
    /\ Len(last.out.compared) = 1
    /\ last.out.structure_calls = 1
    /\ last.out.exc = "ValidationError"
    /\ MatchesAt(last.file, last.order[2].magic_bytes, last.order[2].offset)

\* the extension has at least one record in the store
Registered(extension) == \E i \in 1..Len(store) : store[i].extension = extension

\* C6: validate checks, in this order, that the path exists and is a regular
\* file (FileReadError), that its size is at most the maximum (FileReadError),
\* that it has an extension (ValidationError) and that the extension has a
\* record (SignatureNotFoundError); the first check that fails decides the error.
C6_PreconditionOrder ==
    (last.op = "validate") =>
        LET f == last.file
            out == last.out
        IN  IF ~f.exists \/ ~f.is_file THEN
                out.exc = "FileReadError" /\ out.msg \in {"File not found", "Path is not a file"}
            ELSE IF f.size > MAX_FILE_SIZE THEN
                out.exc = "FileReadError" /\ out.msg = "File too large"
            ELSE IF file_extension(f) = <<>> THEN
                out.exc = "ValidationError" /\ out.msg = "File has no extension"
            ELSE IF ~Registered(file_extension(f)) /\ ~last.fault THEN
                out.exc = "SignatureNotFoundError"
            ELSE
                out.msg \notin {"File not found", "Path is not a file", "File too large",
                                "File has no extension"}

\* a file over the maximum size, without an extension and with no record: the
\* size check decided
C6_Witness ==
    /\ last.op = "validate"
    /\ last.file.exists /\ last.file.is_file
    /\ last.file.size > MAX_FILE_SIZE
    /\ file_extension(last.file) = <<>>
    /\ last.out.exc = "FileReadError"

(***************************************************************************)
(* Properties of the store and of the reader factory.                      *)
(***************************************************************************)
\* C2 (as claimed): the store never holds two records with the same extension,
\* pattern and offset.
C2_Unique ==
    \A i, j \in 1..Len(store) : i # j => store[i] # store[j]

\* the reader the factory is expected to give for an extension
ExpectedReader(extension) ==
    IF StrLower(extension) \in {DOCX, XLSX, PPTX} THEN "ZipBasedReader"
    ELSE IF StrLower(extension) = ZIP THEN "PlainZipReader"
    ELSE "SimpleReader"

\* the position of a reader in the factory's list
ReaderIndex(reader) == CHOOSE i \in 1..Len(Readers) : Readers[i] = reader

\* C7: get_reader gives the first reader, in the order composite-container,
\* generic-archive, flat-binary, that supports the extension in any letter case,
\* and the flat-binary reader when none does: docx, xlsx and pptx give the
\* composite-container reader, never the generic-archive one, and an unknown
\* extension gives the flat-binary reader.
C7_StrategySelection ==
    (last.op = "get_reader") =>
        LET e == last.extension
            r == last.result
            supported == \E i \in 1..Len(Readers) : supports_file_type(Readers[i], e)
        IN  /\ Readers = <<"ZipBasedReader", "PlainZipReader", "SimpleReader">>
            /\ supported =>
                  /\ supports_file_type(r, e)
                  /\ \A i \in 1..(ReaderIndex(r) - 1) : ~supports_file_type(Readers[i], e)
            /\ ~supported => r = "SimpleReader"
            /\ r = ExpectedReader(e)

\* an office extension in mixed case was given the composite-container reader
\* and, in another call, an unknown extension the flat-binary reader
C7_Witness ==
    /\ last.op = "get_reader"
    /\ \/ last.extension = <<"D","o","c","X">> /\ last.result = "ZipBasedReader"
       \/ last.extension = <<"x","y","z">> /\ last.result = "SimpleReader"

\* get_signatures(extension) on the rows contains the pair, whatever the order
\* in which the store returns the rows
Contains(rows, extension, pair) ==
    \A order \in Orders(RowsOf(rows, normalize_extension(extension))) :
        LET r == get_signatures(rows, extension, order, FALSE)
        IN  r.exc = "none" /\ \E k \in 1..Len(r.result) : r.result[k] = pair

\* the spellings of one extension
SameExtension(e1, e2) == normalize_extension(e1) = normalize_extension(e2)

\* C8: once add_signature(extension, pattern, offset) has succeeded,
\* get_signatures of that extension, in any spelling, contains (pattern in upper
\* case without spaces, offset), and whatever get_signatures contains it still
\* contains after any further call.
C8_RoundTrip ==
    [][ /\ (last'.op = "add_signature" /\ last'.exc = "none") =>
              \A e \in ExtInputs :
                  SameExtension(e, last'.extension) =>
                      Contains(store', e, <<normalize_magic_bytes(last'.magic_bytes),
                                            last'.offset>>)
        /\ store' # store =>
              \A e \in ExtInputs : \A i \in 1..Len(store) :
                  Contains(store, e, Pair(store[i])) => Contains(store', e, Pair(store[i]))
      ]_vars

\* a pattern spelled in lower case with a space was registered under .PDF and a
\* second record was added after it
C8_Witness ==
    /\ last.op = "add_signature"
    /\ last.exc = "none"
    /\ Len(store) = 2
    /\ store[1] = [extension |-> PDF, magic_bytes |-> <<"2","A","5","0">>, offset |-> Offset(-1)]
    /\ last.extension = <<".","P","D","F">>
    /\ last.magic_bytes = <<"2","a"," ","5","0">>

\* the spellings of one pattern: the same characters once letter case and
\* spaces are set aside
SamePattern(p1, p2) == normalize_magic_bytes(p1) = normalize_magic_bytes(p2)

\* C9 (as claimed): after a registration has succeeded, the registration of
\* any other spelling of its extension and pattern with the same offset raises
\* the duplicate error and leaves the store as it is.
C9_SameRegistration ==
    (last.op = "add_signature" /\ last.exc = "none") =>
        \A e \in ExtInputs, p \in PatInputs :
            (SameExtension(e, last.extension) /\ SamePattern(p, last.magic_bytes)) =>
                LET r == add_signature(store, committed, e, p, last.offset, "none")
                IN  r.exc = "DatabaseError" /\ r.msg = "already exists" /\ r.rows = store

\* the kind of error a caller can tell from what add_signature raised
ErrorKind(exc, msg) ==
    IF exc = "none" THEN "none"
    ELSE IF msg \in {"Extension cannot be empty", "Magic bytes cannot be empty",
                     "Invalid hex string for magic bytes"} THEN "InvalidInput"
    ELSE IF msg = "already exists" THEN "DuplicateSignature"
    ELSE "StoreFault"

\* C10 (as claimed): add_signature fails with InvalidInput when the normalized
\* extension is empty, the pattern is empty or the pattern is not hexadecimal,
\* with DuplicateSignature when the normalized triple is already in the store,
\* and these differ from each other and from a fault of the backing store.
C10_ErrorKinds ==
    (last.op = "add_signature") =>
        LET norm_ext == normalize_extension(last.extension)
            norm_hex == normalize_magic_bytes(last.magic_bytes)
            invalid == norm_ext = <<>> \/ norm_hex = <<>> \/ ~fromhex(norm_hex).ok
            present == \E i \in 1..Len(last.before) :
                           last.before[i] = [extension |-> norm_ext,
                                             magic_bytes |-> norm_hex,
                                             offset |-> last.offset]
            kind == ErrorKind(last.exc, last.msg)
        IN  /\ invalid => kind = "InvalidInput"
            /\ (~invalid /\ last.fault \in {"execute", "execute_rollback"}) =>
                  kind = "StoreFault"
            /\ (~invalid /\ last.fault = "commit" /\ ~present) => kind = "StoreFault"
            /\ (~invalid /\ last.fault \notin {"execute", "execute_rollback"} /\ present) =>
                  kind = "DuplicateSignature"
            /\ (~invalid /\ last.fault = "none" /\ ~present) => kind = "none"

(***************************************************************************)
(* Properties of the queries and of the life of a store.                   *)
(***************************************************************************)
\* how many times x stands in the sequence s
Count(s, x) == Cardinality({ i \in 1..Len(s) : s[i] = x })

\* the same elements, each as many times, in any order
SameBag(s1, s2) ==
    /\ Len(s1) = Len(s2)
    /\ \A i \in 1..Len(s1) : Count(s1, s1[i]) = Count(s2, s1[i])

\* the pairs of the records of an extension, in rowid order
PairsOf(rows, extension) ==
    LET mine == SelectSeq(rows, LAMBDA r : r.extension = extension)
    IN  [i \in 1..Len(mine) |-> Pair(mine[i])]

\* the spellings of an extension the claim names: itself, its upper-case form
\* and itself after a dot
Spellings(e) == { e, StrUpper(e), <<".">> \o e }

\* C11: get_signatures(e) raises SignatureNotFoundError exactly when the store
\* holds no record whose extension is the normalized form of e; otherwise it
\* returns a non-empty sequence made of exactly the (pattern, offset) pairs of
\* the records of that extension, and e, its upper-case form and '.'+e give
\* the same result.
C11_GetSignatures ==
    (last.op = "get_signatures" /\ ~last.fault) =>
        LET pairs == PairsOf(store, normalize_extension(last.extension))
        IN  /\ last.exc = "SignatureNotFoundError" <=> pairs = <<>>
            /\ pairs # <<>> =>
                  /\ last.exc = "none"
                  /\ last.result # <<>>
                  /\ SameBag(last.result, pairs)
            /\ \A e \in Spellings(last.extension) :
                  \A order \in Orders(RowsOf(store, normalize_extension(e))) :
                      LET r == get_signatures(store, e, order, FALSE)
                      IN  r.exc = last.exc /\ SameBag(r.result, last.result)

\* .PDF was looked up in a store that holds one pdf record and one docx record,
\* and the pdf record alone came back
C11_Witness ==
    /\ last.op = "get_signatures"
    /\ last.extension = <<".","P","D","F">>
    /\ last.exc = "none"
    /\ Len(last.result) = 1
    /\ Len(store) = 2
    /\ \E i \in 1..2 : store[i].extension = DOCX

\* what signature_count() answers on the rows
CountOf(rows) == signature_count(rows, FALSE).result

\* C12 (as claimed): signature_count() is the number of records, 0 for a new
\* store; an add_signature call that succeeds raises it by one and one that
\* fails leaves it unchanged, so that it is the number of add_signature calls
\* that succeeded and not the number of distinct extensions.
C12_Count ==
    /\ CountOf(store) = 0
    /\ [][ /\ (last'.op = "signature_count" /\ last'.exc = "none") =>
                  last'.result = Len(store)
           /\ (last'.op = "add_signature" /\ conn = "open" /\ last'.exc = "none") =>
                  CountOf(store') = CountOf(store) + 1
           /\ (last'.op = "add_signature" /\ conn = "open" /\ last'.exc # "none") =>
                  CountOf(store') = CountOf(store)
         ]_vars

\* get_signatures(e) returns, in whatever order the rows come back
LookupSucceeds(rows, e) ==
    \A order \in Orders(RowsOf(rows, normalize_extension(e))) :
        get_signatures(rows, e, order, FALSE).exc = "none"

\* the extensions a record can have in the life of a store, and one none has
NormalExts == { normalize_extension(e) : e \in StoreExts } \cup { <<"p","n","g">> }

\* C13: get_all_extensions returns, in ascending order and without repetition,
\* exactly the extensions that own at least one record: an extension is in the
\* result if and only if get_signatures of it succeeds, and the result is empty
\* for an empty store.
C13_AllExtensions ==
    (last.op = "get_all_extensions" /\ last.exc = "none") =>
        LET result == last.result
        IN  /\ \A i \in 1..(Len(result) - 1) : StrLess(result[i], result[i + 1])
            /\ \A i \in 1..Len(result) : \E k \in 1..Len(store) :
                  store[k].extension = result[i]
            /\ \A e \in NormalExts :
                  (\E i \in 1..Len(result) : result[i] = e) <=> LookupSucceeds(store, e)
            /\ store = <<>> => result = <<>>

\* a pdf record was added before a docx record and docx comes first in the
\* result
C13_Witness ==
    /\ last.op = "get_all_extensions"
    /\ Len(store) = 2
    /\ store[1].extension = PDF
    /\ store[2].extension = DOCX
    /\ last.result = <<DOCX, PDF>>

\* C14: close is idempotent for the store and for the validator: the first
\* close() releases the connection, and every close() after it raises no error
\* and changes nothing, the connection staying released.
C14_CloseIdempotent ==
    [][ (last'.op \in {"close", "validator_close"}) =>
            /\ last'.exc = "none"
            /\ conn' = "closed"
            /\ conn = "closed" => UNCHANGED <<store, committed, conn>>
      ]_vars

\* the validator's close() was called on a store that holds records and was
\* closed before
C14_Witness ==
    /\ last.op = "validator_close"
    /\ last.before = "closed"
    /\ last.exc = "none"
    /\ store # <<>>

\* the rows in the database file: what a new store on the location finds
Durable(rows, n) == SubSeq(rows, 1, n)

\* the row a successful add_signature call registers
RowOf(call) ==
    [extension |-> normalize_extension(call.extension),
     magic_bytes |-> normalize_magic_bytes(call.magic_bytes), offset |-> call.offset]

\* C15 (as claimed): a new store holds no durable record; an add_signature that
\* returns adds its record, and nothing else, to the durable records at once;
\* no other step, a failing add_signature and close included, changes the
\* durable records; a store opened on the location after a close sees exactly
\* the durable records.  So the records found after close and reopen are
\* exactly those registered before the close.
C15_Persistence ==
    /\ Durable(store, committed) = <<>>
    /\ [][ /\ (last'.op = "add_signature" /\ last'.exc = "none") =>
                  Durable(store', committed') =
                      Append(Durable(store, committed), RowOf(last'))
           /\ ~(last'.op = "add_signature" /\ last'.exc = "none") =>
                  Durable(store', committed') = Durable(store, committed)
           /\ last'.op = "open" => store' = Durable(store, committed)
         ]_vars

\* the calls that read the store or the file and are to leave the records alone
ReadOnlyOps ==
    {"validate", "get_signatures", "get_all_extensions", "signature_count",
     "get_file_hash"}

\* C16 (as claimed): a successful add_signature adds exactly one record after
\* the existing ones, which stay as they are; validate, get_signatures,
\* get_all_extensions, signature_count, get_file_hash and a failing
\* add_signature leave the records of the store unchanged.
C16_Frame ==
    [][ /\ (last'.op = "add_signature" /\ last'.exc = "none") =>
               store' = Append(store, RowOf(last'))
        /\ (last'.op = "add_signature" /\ last'.exc # "none") => store' = store
        /\ last'.op \in ReadOnlyOps => store' = store
      ]_vars

(***************************************************************************)
(* Further properties of the validator.                                    *)
(***************************************************************************)
\* C17: for a file whose size is strictly greater than MAX_FILE_SIZE, validate
\* raises FileReadError before any byte comparison: no signature lookup, no
\* read of the file's bytes and no structural check takes place; a file of
\* exactly the maximum size is not rejected by this check.
C17_Oversized ==
    (last.op = "validate" /\ last.file.exists /\ last.file.is_file) =>
        LET out == last.out
        IN  /\ last.file.size > MAX_FILE_SIZE =>
                  /\ out.exc = "FileReadError"
                  /\ out.msg = "File too large"
                  /\ out.lookups = 0
                  /\ out.compared = <<>>
                  /\ out.reads = <<>>
                  /\ out.structure_calls = 0
            /\ last.file.size <= MAX_FILE_SIZE => out.msg # "File too large"

\* big.pdf, one byte over the maximum, was rejected although the store holds a
\* pdf record that its first bytes match
C17_Witness ==
    /\ last.op = "validate"
    /\ last.file.size = MAX_FILE_SIZE + 1
    /\ file_extension(last.file) = PDF
    /\ SomeRecordMatches(last.file)
    /\ last.out.exc = "FileReadError"
    /\ last.out.lookups = 0

\* every record handed over by the store was compared with the file and none
\* matched it
NoneMatched ==
    /\ last.op = "validate"
    /\ Usable(last.file, last.fault)
    /\ Len(last.order) >= 1
    /\ \A i \in 1..Len(OrderPairs) :
          LET c == check_signature(last.file, OrderPairs[i][1], OrderPairs[i][2],
                                   get_reader(file_extension(last.file)))
          IN  c.exc = "none" /\ ~c.match

\* C18: when every record of the extension has been compared and none matched,
\* validate raises ValidationError carrying the pattern of the last record
\* compared, the last one in the order returned by the store, and the bytes,
\* at most DiagLength of them, read from the file at offset 0, whatever the
\* offsets of the records are.
C18_NoMatchDiagnostic ==
    NoneMatched =>
        LET out == last.out
            n == Len(OrderPairs)
        IN  /\ out.exc = "ValidationError"
            /\ out.msg = "magic bytes don't match"
            /\ out.compared = OrderPairs
            /\ out.expected = OrderPairs[n][1]
            /\ out.found = HexUpper(Content(last.file, DiagLength, 0).bytes)
            /\ out.reads[Len(out.reads)] = <<DiagLength, Offset(0)>>

\* a.pdf (25 50 44) was compared with FFD8 at offset 0 and then with 2550 at
\* offset 1: the diagnostic names 2550 and the bytes 255044 found at offset 0
C18_Witness ==
    /\ NoneMatched
    /\ Len(last.order) = 2
    /\ last.order[2].offset = Offset(1)
    /\ last.out.expected = <<"2","5","5","0">>
    /\ last.out.found = <<"2","5","5","0","4","4">>

(***************************************************************************)
(* Properties of the stored records.                                       *)
(***************************************************************************)
\* the characters of uppercase hexadecimal notation
UpperHexDigits == { HexChars[i] : i \in 1..16 }

\* C19 (as claimed): every record in the store has a non-empty extension that
\* is lowercase and has no leading dot, and a non-empty pattern made of an even
\* number of uppercase hexadecimal digits and of no other character.
C19_NormalForm ==
    \A i \in 1..Len(store) :
        /\ store[i].extension # <<>>
        /\ store[i].extension = StrLower(store[i].extension)
        /\ Head(store[i].extension) # "."
        /\ store[i].magic_bytes # <<>>
        /\ \A k \in 1..Len(store[i].magic_bytes) :
              store[i].magic_bytes[k] \in UpperHexDigits
        /\ Len(store[i].magic_bytes) % 2 = 0

\* C20 (as claimed): every record in the store has an integer offset that is
\* not negative.
C20_NonNegativeOffset ==
    \A i \in 1..Len(store) : store[i].offset # Null /\ IntOf(store[i].offset) >= 0

(***************************************************************************)
(* Properties of the reader strategies.                                    *)
(***************************************************************************)
\* the file can be opened for reading
Openable(f) == f.exists /\ f.is_file /\ f.readable

\* C21: read_signature(file, length, offset) of every reader, for a length and
\* an offset that are natural numbers, returns exactly the file's bytes at the
\* positions [offset, min(offset + length, size)): the full length when the
\* file has it, fewer bytes at end-of-file, no byte when the offset is at or
\* past the end, never a padding byte; a file that cannot be opened and a seek
\* that fails give FileReadError.
C21_ReadSignature ==
    (last.op = "read_signature" /\ last.length >= 0) =>
        LET f == last.file
            offset == IntOf(last.offset)
            n == Max(0, Min(last.length, f.size - offset))
        IN  IF ~Openable(f) \/ offset < 0 THEN
                last.exc = "FileReadError"
            ELSE
                /\ last.exc = "none"
                /\ Len(last.bytes) = n
                /\ \A k \in 1..n : last.bytes[k] = ByteAt(f, offset + k - 1)
                /\ (offset + last.length <= f.size) => Len(last.bytes) = last.length
                /\ (offset >= f.size) => last.bytes = <<>>

\* the container reader was asked for 8 bytes at offset 2 of a.pdf (25 50 44)
\* and returned the one byte 44
C21_Witness ==
    /\ last.op = "read_signature"
    /\ last.reader = "ZipBasedReader"
    /\ last.file.size = 3
    /\ last.length = 8
    /\ last.offset = Offset(2)
    /\ last.bytes = <<68>>

(***************************************************************************)
(* Properties of the bulk loader.                                          *)
(***************************************************************************)
\* no fault of the backing store met the load
NoFaults(faults) == \A i \in 1..Len(faults) : faults[i] = "none"

\* C22 (as claimed): load_signatures on a well-formed document never fails for
\* an entry that is already registered; it returns the number of records it
\* inserted, so that signature_count() after the load is signature_count()
\* before it plus the value returned; and loading the same document a second
\* time returns 0 and leaves the records as they are.
C22_BulkLoad ==
    ( /\ last.op = "load_signatures"
      /\ last.doc.exists /\ last.doc.parses
      /\ loader_validate_structure(last.doc.entries)
      /\ conn = "open" )
    => LET again == load_signatures(store, committed, conn, last.doc,
                                    [i \in 1..Len(last.doc.entries) |-> "none"])
       IN  /\ last.exc = "none"
           /\ CountOf(store) = CountOf(last.before) + last.loaded
           /\ NoFaults(last.faults) => (again.loaded = 0 /\ again.rows = store)

(***************************************************************************)
(* Properties of the with blocks and of a closed store.                    *)
(***************************************************************************)
\* C23: leaving the with block of a Database or of a FileValidator closes the
\* store, whether the block ended normally or with an exception: __exit__
\* raises nothing, the connection is released afterwards, and the exception
\* of the block is not suppressed.
C23_ContextExit ==
    last.op \in {"database_exit", "validator_exit"} =>
        /\ conn = "closed"
        /\ last.exc = "none"
        /\ ~last.suppress

\* the with block of a validator ended with an exception while the store was
\* open and held a record
C23_Witness ==
    /\ last.op = "validator_exit"
    /\ last.exc_type = "ValidationError"
    /\ last.before = "open"
    /\ conn = "closed"
    /\ store # <<>>

\* the methods of the store that read or write the records
StoreMethods ==
    {"get_signatures", "add_signature", "get_all_extensions", "signature_count"}

\* C26: once the store is closed, every get_signatures, add_signature,
\* get_all_extensions and signature_count call on it fails with an error; such
\* a call neither reopens the store nor changes the records, pending or
\* durable; and the store stays closed until a new store is opened on its
\* location.
C26_ClosedStore ==
    [][ /\ (conn = "closed" /\ last'.op \in StoreMethods) =>
               /\ last'.exc # "none"
               /\ UNCHANGED <<store, committed, conn>>
        /\ (conn = "closed" /\ conn' # "closed") => last'.op = "open"
      ]_vars

\* a registration with valid arguments failed on a closed store that holds a
\* record
C26_Witness ==
    /\ conn = "closed"
    /\ last.op = "add_signature"
    /\ last.exc = "AttributeError"
    /\ store # <<>>

(***************************************************************************)
(* Properties of the digest.                                               *)
(***************************************************************************)
\* the sum of the numbers of a sequence
RECURSIVE SumOf(_)
SumOf(s) == IF s = <<>> THEN 0 ELSE Head(s) + SumOf(Tail(s))

\* the SHA-256 digest of the empty message
EmptyDigest ==
    <<"e","3","b","0","c","4","4","2","9","8","f","c","1","c","1","4",
      "9","a","f","b","f","4","c","8","9","9","6","f","b","9","2","4",
      "2","7","a","e","4","1","e","4","6","4","9","b","9","3","4","c",
      "a","4","9","5","9","9","1","b","7","8","5","2","b","8","5","5">>

\* C24: get_file_hash hands the whole content of the file to the hash, every
\* byte once and in order, in chunks of at most ChunkSize bytes; the value it
\* returns has 64 hexadecimal characters, is the SHA-256 digest of the content
\* and of nothing else (files with the same bytes have the same value, the
\* content without its last byte has another), and is the value every other
\* call gives for the file.
C24_Digest ==
    (last.op = "get_file_hash" /\ Openable(last.file)) =>
        LET f == last.file
        IN  /\ last.exc = "none"
            /\ last.message = Content(f, f.size, 0).bytes
            /\ SumOf(last.chunks) = f.size
            /\ \A i \in 1..Len(last.chunks) :
                  last.chunks[i] >= 1 /\ last.chunks[i] <= ChunkSize
            /\ last.pc = "done" =>
                  /\ Len(last.digest) = 64
                  /\ \A k \in 1..64 :
                        \E j \in 1..16 : last.digest[k] = LowerHexChars[j]
                  /\ last.digest = get_file_hash(f).digest
                  /\ f.size = 0 => last.digest = EmptyDigest
                  /\ \A g \in HashFiles :
                        ( /\ Openable(g) /\ g.size <= MaxHashed
                          /\ Content(g, g.size, 0).bytes = Content(f, f.size, 0).bytes )
                        => get_file_hash(g).digest = last.digest
                  /\ f.size > 0 =>
                        sha256_hexdigest(Content(f, f.size - 1, 0).bytes) # last.digest

\* the digest of c.bin, which has the bytes of a.pdf, was computed and is the
\* digest of a.pdf
C24_Witness ==
    /\ last.op = "get_file_hash"
    /\ last.pc = "done"
    /\ last.file.name = <<"c",".","b","i","n">>
    /\ Len(last.digest) = 64
    /\ last.digest =
          get_file_hash(CHOOSE g \in HashFiles : g.name = <<"a",".","p","d","f">>).digest

(***************************************************************************)
(* Properties of the structure check of the composite-container reader.    *)
(***************************************************************************)
\* C25: ZipBasedReader.validate_structure, for an extension that is docx,
\* xlsx or pptx in any letter case, returns true exactly when the file is a
\* well-formed container whose listing holds every path required for the
\* extension; a file that is not a container (or cannot be opened) gives
\* false and no exception; any other extension gives false.
C25_ValidateStructure ==
    (last.op = "validate_structure" /\ last.reader = "ZipBasedReader") =>
        LET f == last.file
            ext == StrLower(last.extension)
        IN  /\ ext \notin OfficeTypes => (last.exc = "none" /\ last.value = FALSE)
            /\ ext \in OfficeTypes =>
                  /\ (last.exc = "none" /\ last.value = TRUE) <=>
                        (/\ Openable(f)
                         /\ f.zip = "ok"
                         /\ OFFICE_FILE_STRUCTURES(ext) \subseteq f.names)
                  /\ (~Openable(f) \/ f.zip = "no") =>
                        (last.exc = "none" /\ last.value = FALSE)
                  /\ last.exc \in {"none", "FileReadError"}
                  /\ last.exc = "FileReadError" => (Openable(f) /\ f.zip = "bad")

\* a container that holds one of the two required paths was checked and
\* refused
C25_Witness ==
    /\ last.op = "validate_structure"
    /\ last.reader = "ZipBasedReader"
    /\ last.extension = DOCX
    /\ last.file.zip = "ok"
    /\ "[Content_Types].xml" \in last.file.names
    /\ "word/document.xml" \notin last.file.names
    /\ last.exc = "none"
    /\ last.value = FALSE

(***************************************************************************)
(* Properties of the commands.                                             *)
(***************************************************************************)
\* C27: whenever scan has created the validator, it has closed it (and the
\* store with it) when it ends, whether validate returned true or validate
\* or get_file_hash raised an exception.
C27_ScanCloses ==
    (last.op = "scan" /\ last.created) => (last.closed /\ conn = "closed")

\* C30: when scan_dir reaches its loop, every selected file is handed to
\* validate exactly once, in the order of the selection, and goes to exactly
\* one of the three counters, so that the counters add up to the number of
\* files; a file that fails does not end the loop; the exit status is 0
\* exactly when the invalid and the error counter are both 0.
C30_ScanDir ==
    (last.op = "scan_dir" /\ last.looped) =>
        LET counts == last.counts
            files == last.selected
        IN  /\ files = select_files(last.listing, last.extensions)
            /\ files # <<>>
            /\ counts.validated = [i \in 1..Len(files) |-> files[i].name]
            /\ Len(counts.tally) = Len(files)
            /\ \A i \in 1..Len(files) : counts.tally[i] \in {"valid", "invalid", "error"}
            /\ counts.valid_count = Count(counts.tally, "valid")
            /\ counts.invalid_count = Count(counts.tally, "invalid")
            /\ counts.error_count = Count(counts.tally, "error")
            /\ counts.valid_count + counts.invalid_count + counts.error_count = Len(files)
            /\ (last.exit_code = 0) <=>
                  (counts.invalid_count = 0 /\ counts.error_count = 0)
            /\ last.exit_code \in {0, 1}

(***************************************************************************)
(* Properties of the store and the validator together.                     *)
(***************************************************************************)
\* C28: in a store filled through add_signature every stored pattern is one
\* that bytes.fromhex decodes, and validate never raises
\* InvalidSignatureError.
C28_NoInvalidSignature ==
    /\ \A i \in 1..Len(store) : fromhex(store[i].magic_bytes).ok
    /\ last.op = "validate" => last.out.exc # "InvalidSignatureError"

\* validate has decoded and compared a stored pattern that holds a tab
C28_Witness ==
    /\ last.op = "validate"
    /\ last.out.exc \in {"none", "ValidationError"}
    /\ \E i \in 1..Len(last.out.compared) :
          \E k \in 1..Len(last.out.compared[i][1]) :
              last.out.compared[i][1][k] = "\t"

(***************************************************************************)
(* Properties of the reader factory.                                       *)
(***************************************************************************)
\* C29: no extension, in any letter case, is supported by two of the three
\* readers, so get_reader returns the same reader for every order of the
\* list that keeps the flat-binary reader last.
C29_DisjointSupport ==
    last.op = "get_reader" =>
        /\ \A i, j \in 1..Len(Readers) :
              (i # j) => ~(/\ supports_file_type(Readers[i], last.extension)
                          /\ supports_file_type(Readers[j], last.extension))
        /\ Readers \in ReaderOrders
        /\ Cardinality(ReaderOrders) = 2
        /\ \A o \in ReaderOrders : get_reader_of(o, last.extension) = last.result

\* the reader of an office document spelled in mixed case was asked for
C29_Witness ==
    /\ last.op = "get_reader"
    /\ last.extension = <<"D","o","c","X">>
    /\ last.result = "ZipBasedReader"
    /\ get_reader_of(<<"PlainZipReader", "ZipBasedReader", "SimpleReader">>,
                     last.extension) = "ZipBasedReader"

====
